---- MODULE Spec2Model ----
(***************************************************************************)
(* Model of the row submission pipeline of the API integration wizard      *)
(* (the SubmissionResults component and the App callback it reports to).   *)
(*                                                                         *)
(* The component is a React function component: its state lives in         *)
(* useState cells, and every handler is a closure created by one render,   *)
(* so a handler reads the values of isPaused, currentRow and results that  *)
(* were current when the button it hangs on was rendered.  An async        *)
(* handler keeps those captured values across its awaits.  State setters   *)
(* write the component's cells; the functional form setResults(prev => ..) *)
(* reads the cell at the time of the write.                                *)
(*                                                                         *)
(* MappingSpec is the mapping step (DataMapping) up to the payloads built   *)
(* from its mapping set, DiscoverySpec one call of                         *)
(* ApiClient.discoverEndpoints against every combination of replies.       *)
(* NormalizerSpec applies the schema normalizer to bounded documents,      *)
(* ClientSpec is one call of ApiClient.submitData, SetupSpec the           *)
(* credentials form up to the end of the discovery it starts, and          *)
(* VerificationSpec the runs of DataVerification.startVerification.        *)
(***************************************************************************)
EXTENDS Integers, Sequences, FiniteSets, Bags, TLC

\* ---------------------------------------------------------------- bounds
MaxRows == 2
MaxClicks == 4

\* ------------------------------------------------------------- test data
\* An optional field of a JS object: absent, or present with a value.
Undefined == << >>
Some(v) == << v >>
\* The JS value null, as stored by `response: responseData`.
JsNull == [isNull |-> TRUE]

\* spreadsheetData.rows[i]: a record keyed by the headers.
Row(i) == [name |-> 10 + i, email |-> 20 + i]

\* The mapping set handed over by the mapping step.
mappings ==
  << [spreadsheetColumn |-> "email", apiField |-> "mail"],
     [spreadsheetColumn |-> "name", apiField |-> "title"] >>

\* The parsed JSON body of a successful response for row i.
ResponseBody(i) == [id |-> 100 + i]

\* What a request can end in: 2xx with a JSON body, 2xx with a body that is
\* not JSON (an empty one, say), another status, or a rejected promise.
Outcomes == {"ok", "okbad", "http", "exc"}

\* spreadsheetData.headers.
Headers == {"name", "email"}

\* The endpoints the mapping step is tried on: zero or one parameter, and no
\* request body or one whose schema has up to two properties.
EndpointParameters ==
  { << >>,
    << [name |-> "id", required |-> TRUE] >>,
    << [name |-> "id", required |-> FALSE] >>,
    << [name |-> "mail", required |-> TRUE] >> }

BodyProperties ==
  { << >>,
    << [name |-> "mail", required |-> TRUE] >>,
    << [name |-> "mail", required |-> FALSE], [name |-> "title", required |-> TRUE] >>,
    << [name |-> "mail", required |-> TRUE], [name |-> "title", required |-> FALSE] >> }

Endpoints ==
  { [method |-> "POST", parameters |-> ps, requestBody |-> b] :
      ps \in EndpointParameters,
      b \in {Undefined} \cup { Some([properties |-> props]) : props \in BodyProperties } }

\* The endpoint and the mapping set of the submission runs.
SubmissionEndpoint ==
  [method |-> "POST", parameters |-> << >>,
   requestBody |-> Some([properties |->
      << [name |-> "mail", required |-> TRUE], [name |-> "title", required |-> FALSE] >>])]

VARIABLES
  rowCount,           \* spreadsheetData.rows.length
  results,            \* useState: SubmissionResult[]
  isRunning,          \* useState
  isPaused,           \* useState
  currentRow,         \* useState
  loops,              \* bag of the activations of startSubmission suspended at an await
  currentStep,        \* App: 'submission' | 'verification'
  submissionResults,  \* App: the result set received from the pipeline
  issued,             \* history: requests issued per row (0, 1, or 2 for more)
  completeCalls,      \* history: invocations of onSubmissionComplete
  lastAttempted,      \* history: row of the most recent request, -1 if none
  nClicks,            \* history: clicks on the component's buttons
  everPaused,         \* history: Pause has been clicked
  everReset,          \* history: Reset has been clicked
  selectedEndpoint,   \* App: the endpoint chosen at the discovery step
  fieldMappings,      \* App: the mapping set received from the mapping step
  dmMappings,         \* DataMapping useState: FieldMapping[]
  dmRemoved,          \* history: a mapping entry has been removed
  sentPayload,        \* the payload generatePayload built last, with its row
  discPc,             \* discoverEndpoints: 'idle' | 'docs' | 'manual' | 'done'
  discIdx,            \* discoverEndpoints: URLs or paths the current loop has consumed
  probes,             \* history: the requests of the discovery, each with its reply
  discEndpoints,      \* discoverEndpointsManually: const endpoints
  discDoc,            \* history: the document the result was normalised from
  discResult,         \* the value discoverEndpoints resolved to
  normInput,          \* the value handed to the schema normalizer, with its kind
  normOutput,         \* what the normalizer returned for it
  getEndpointUrl,     \* DataVerification prop: the base URL of the GET requests
  verificationResults,\* DataVerification useState: VerificationResult[]
  isVerifying,        \* DataVerification useState
  verPc,              \* startVerification: 'idle' | 'request' | 'delay'
  verPos,             \* startVerification: successful submissions the loop is past
  verRequests,        \* history: the verifyData calls, each with its row
  showPreview,        \* DataMapping useState
  dmPreview,          \* what the preview block of the last render computed
  clientCall,         \* submitData: the endpoint and data passed, and the network's reply
  clientOutcome,      \* submitData: the request handed to fetch, and the result
  credentials,        \* ApiCredentialsForm useState: the values entered
  isValidating,       \* ApiCredentialsForm useState
  validationStatus,   \* ApiCredentialsForm useState: 'idle' | 'success' | 'error'
  credError,          \* ApiCredentialsForm useState: error
  testing,            \* validateCredentials suspended at testConnection: its client
  apiClient,          \* App useState: the client handed over
  appCredentials,     \* App useState: credentials
  errorMessage,       \* App useState
  lastTest,           \* history: the latest testConnection, its credentials and reply
  edEndpoints,        \* EndpointDiscovery useState: endpoints
  edError,            \* EndpointDiscovery useState: error
  isDiscovering       \* EndpointDiscovery useState

compVars == <<results, isRunning, isPaused, currentRow>>
appVars == <<currentStep, submissionResults>>
histVars == <<issued, completeCalls, lastAttempted, nClicks, everPaused, everReset>>
normVars == <<normInput, normOutput>>
previewVars == <<showPreview, dmPreview>>
clientVars == <<clientCall, clientOutcome>>
formVars == <<credentials, isValidating, validationStatus, credError, testing, lastTest>>
setupVars == <<credentials, isValidating, validationStatus, credError, testing, lastTest,
               apiClient, appCredentials, errorMessage,
               edEndpoints, edError, isDiscovering>>
verVars == <<getEndpointUrl, verificationResults, isVerifying, verPc, verPos, verRequests>>
discVars == <<discPc, discIdx, probes, discEndpoints, discDoc, discResult>>
wizardVars == <<selectedEndpoint, fieldMappings, dmMappings, dmRemoved, sentPayload>>
subVars == <<rowCount, results, isRunning, isPaused, currentRow, loops,
             submissionResults,
             issued, completeCalls, lastAttempted, nClicks, everPaused, everReset>>
vars == <<rowCount, results, isRunning, isPaused, currentRow, loops,
          currentStep, submissionResults,
          issued, completeCalls, lastAttempted, nClicks, everPaused, everReset,
          selectedEndpoint, fieldMappings, dmMappings, dmRemoved, sentPayload,
          discPc, discIdx, probes, discEndpoints, discDoc, discResult,
          normInput, normOutput,
          getEndpointUrl, verificationResults, isVerifying, verPc, verPos, verRequests,
          showPreview, dmPreview, clientCall, clientOutcome,
          credentials, isValidating, validationStatus, credError, testing, lastTest,
          apiClient, appCredentials, errorMessage, edEndpoints, edError, isDiscovering>>

\* The credentials the wizard went on with.
ValidCredentials == [baseUrl |-> << "https://host" >>, username |-> "u", password |-> "p"]

\* The credentials step has been passed: the form validated ValidCredentials
\* and App holds the client built from them.
SetupDone ==
  /\ credentials = ValidCredentials
  /\ isValidating = FALSE
  /\ validationStatus = "success"
  /\ credError = << >>
  /\ testing = Undefined
  /\ lastTest = Some([credentials |-> ValidCredentials, ok |-> TRUE])
  /\ apiClient = Some([credentials |-> ValidCredentials])
  /\ appCredentials = Some(ValidCredentials)
  /\ errorMessage = Undefined

\* EndpointDiscovery is not mounted.
EndpointDiscoveryIdle ==
  /\ edEndpoints = << >>
  /\ edError = << >>
  /\ isDiscovering = FALSE

\* The preview block of the mapping step has not been rendered.
PreviewIdle ==
  /\ showPreview = FALSE
  /\ dmPreview = Undefined

\* submitData has not been called.
ClientIdle ==
  /\ clientCall = Undefined
  /\ clientOutcome = Undefined

\* The normalizer has been given nothing.
NormalizerIdle ==
  /\ normInput = Undefined
  /\ normOutput = Undefined

\* The verification step is not mounted.
VerificationIdle ==
  /\ getEndpointUrl = Undefined
  /\ verificationResults = << >>
  /\ isVerifying = FALSE
  /\ verPc = "idle"
  /\ verPos = 0
  /\ verRequests = {}

\* No discoverEndpoints call is under way.
DiscoveryIdle ==
  /\ discPc = "idle"
  /\ discIdx = 0
  /\ probes = << >>
  /\ discEndpoints = << >>
  /\ discDoc = Undefined
  /\ discResult = Undefined

\* ------------------------------------------------------- pure functions

\* A payload keyed by the spreadsheet columns instead of the API fields.
RECURSIVE ApplyMappingsByColumn(_, _, _)
ApplyMappingsByColumn(ms, row, payload) ==
  IF ms = << >> THEN payload
  ELSE LET m == Head(ms)
           p == [f \in (DOMAIN payload) \cup {m.spreadsheetColumn} |->
                   IF f = m.spreadsheetColumn THEN row[m.spreadsheetColumn] ELSE payload[f]]
       IN ApplyMappingsByColumn(Tail(ms), row, p)

RECURSIVE ApplyMappings(_, _, _)
ApplyMappings(ms, row, payload) ==
  IF ms = << >> THEN payload
  ELSE LET m == Head(ms)
           p == [f \in (DOMAIN payload) \cup {m.apiField} |->
                   IF f = m.apiField THEN row[m.spreadsheetColumn] ELSE payload[f]]
       IN ApplyMappings(Tail(ms), row, p)

generatePayload(rowIndex) == ApplyMappings(mappings, Row(rowIndex), [f \in {} |-> 0])

\* The table built by the initialisation effect.
initialResults(n) ==
  [k \in 1..n |-> [rowIndex |-> k - 1, status |-> "pending",
                   payload |-> Undefined, response |-> Undefined, error |-> Undefined]]

\* resetSubmission numbering the rows from 1.
resetResultsFromOne(n) ==
  [k \in 1..n |-> [rowIndex |-> k, status |-> "pending",
                   payload |-> Undefined, response |-> Undefined, error |-> Undefined]]

\* The table built by resetSubmission.
resetResults(n) ==
  [k \in 1..n |-> [rowIndex |-> k - 1, status |-> "pending",
                   payload |-> Undefined, response |-> Undefined, error |-> Undefined]]

\* submitRow, first setResults: the row is marked pending with its payload.
MarkAttempt(prev, rowIndex, payload) ==
  [k \in 1..Len(prev) |->
     IF prev[k].rowIndex = rowIndex
     THEN [prev[k] EXCEPT !.status = "pending", !.payload = Some(payload)]
     ELSE prev[k]]

\* submitRow, setResults after the response arrived.
RecordResponse(prev, rowIndex, ok) ==
  [k \in 1..Len(prev) |->
     IF prev[k].rowIndex = rowIndex
     THEN [prev[k] EXCEPT
             !.status = IF ok THEN "success" ELSE "error",
             !.response = IF ok THEN Some(ResponseBody(rowIndex)) ELSE Some(JsNull),
             !.error = IF ok THEN Undefined ELSE Some("HTTP 500: Internal Server Error")]
     ELSE prev[k]]

\* A catch block that drops the exception and leaves the row as it is.
RecordExceptionDropped(prev, rowIndex) == prev

\* A catch block that marks every row instead of the one that failed.
RecordExceptionAllRows(prev, rowIndex) ==
  [k \in 1..Len(prev) |->
     [prev[k] EXCEPT !.status = "error", !.error = Some("Failed to fetch")]]

\* submitRow, setResults in the catch block.
RecordException(prev, rowIndex) ==
  [k \in 1..Len(prev) |->
     IF prev[k].rowIndex = rowIndex
     THEN [prev[k] EXCEPT !.status = "error", !.error = Some("Failed to fetch")]
     ELSE prev[k]]

\* The same catch block reached from `await response.json()`: error.message
\* is the parser's.
RecordParseFailure(prev, rowIndex) ==
  [k \in 1..Len(prev) |->
     IF prev[k].rowIndex = rowIndex
     THEN [RecordException(prev, rowIndex)[k] EXCEPT
             !.error = Some("Unexpected end of JSON input")]
     ELSE RecordException(prev, rowIndex)[k]]

RecordOutcome(prev, rowIndex, outcome) ==
  IF outcome = "exc" THEN RecordException(prev, rowIndex)
  ELSE IF outcome = "okbad" THEN RecordParseFailure(prev, rowIndex)
  ELSE RecordResponse(prev, rowIndex, outcome = "ok")

\* ------------------------------------------------------------ the loops

\* What one render's startSubmission closes over.  The exit of the loop reads
\* the captured table only when the captured cursor passes the completion
\* test, so the table is kept in the activation only in that case.
Capture(p, c, rs) ==
  [isPaused |-> p, currentRow |-> c,
   results |-> IF c >= rowCount - 1 THEN rs ELSE << >>]

\* An activation suspended at `await`: at the request of row i or at the
\* delay after it, with what it captured.
Activation(pc, i, cap) ==
  [pc |-> pc, i |-> i, isPaused |-> cap.isPaused, currentRow |-> cap.currentRow,
   results |-> cap.results]

Activations == BagToSet(loops)
Suspend(bag, a) == bag (+) SetToBag({a})
Leave(bag, a) == bag (-) SetToBag({a})

\* The component is mounted exactly while App shows the submission step; the
\* state setters of an unmounted component do nothing.
Mounted == currentStep = "submission"

\* The request counter of a row, saturating.
Count(n) == IF n < 2 THEN n + 1 ELSE n

\* App.handleSubmissionComplete, reached through onSubmissionComplete(arg)
\* when the caller's completion test `called` holds.
handleSubmissionComplete(called, arg) ==
  /\ currentStep' = IF called THEN "verification" ELSE currentStep
  /\ submissionResults' = IF called THEN arg ELSE submissionResults
  /\ completeCalls' = IF called THEN completeCalls + 1 ELSE completeCalls

Init ==
  /\ SetupDone
  /\ EndpointDiscoveryIdle
  /\ PreviewIdle
  /\ ClientIdle
  /\ DiscoveryIdle
  /\ NormalizerIdle
  /\ VerificationIdle
  /\ rowCount \in 1..MaxRows
  /\ results = initialResults(rowCount)
  /\ isRunning = FALSE
  /\ isPaused = FALSE
  /\ currentRow = 0
  /\ loops = EmptyBag
  /\ currentStep = "submission"
  /\ submissionResults = << >>
  /\ issued = [r \in 0..(rowCount - 1) |-> 0]
  /\ completeCalls = 0
  /\ lastAttempted = -1
  /\ nClicks = 0
  /\ everPaused = FALSE
  /\ everReset = FALSE
  /\ selectedEndpoint = SubmissionEndpoint
  /\ fieldMappings = mappings
  /\ dmMappings = mappings
  /\ dmRemoved = FALSE
  /\ sentPayload = Undefined

\* One iteration of the for loop from its head up to the await of the
\* request: setCurrentRow(i), then submitRow(i) builds the payload, marks the
\* row and hands the request to the client.
Iterate(bag, cap, i) ==
  /\ currentRow' = IF Mounted THEN i ELSE currentRow
  /\ results' = IF Mounted THEN MarkAttempt(results, i, generatePayload(i)) ELSE results
  /\ loops' = Suspend(bag, Activation("request", i, cap))
  /\ issued' = [issued EXCEPT ![i] = Count(@)]
  /\ lastAttempted' = i

\* The tail of startSubmission after the for loop: setIsRunning(false) and the
\* completion test, both on the values the activation captured.
LoopExit(cap) ==
  /\ isRunning' = IF Mounted THEN FALSE ELSE isRunning
  /\ handleSubmissionComplete(cap.currentRow >= rowCount - 1, cap.results)

\* The Start and Resume buttons: both call startSubmission, and one of them is
\* rendered exactly when the component is not running and the cursor is
\* inside the table.
StartSubmission ==
  /\ Mounted
  /\ ~isRunning
  /\ currentRow = 0 \/ (currentRow > 0 /\ currentRow < rowCount)
  /\ nClicks < MaxClicks
  /\ nClicks' = nClicks + 1
  /\ isPaused' = FALSE
  /\ LET cap == Capture(isPaused, currentRow, results)
     IN IF cap.currentRow < rowCount /\ ~cap.isPaused
        THEN /\ isRunning' = TRUE
             /\ Iterate(loops, cap, cap.currentRow)
             /\ UNCHANGED <<currentStep, submissionResults, completeCalls>>
        ELSE /\ LoopExit(cap)
             /\ UNCHANGED <<currentRow, results, loops, issued, lastAttempted>>
  /\ UNCHANGED <<normVars, verVars, discVars, previewVars, clientVars, setupVars, wizardVars, rowCount, everPaused, everReset>>

\* The request of activation a completes; submitRow records the outcome and
\* the activation goes on to the delay.
RequestCompletes(a, outcome) ==
  /\ a \in Activations
  /\ a.pc = "request"
  /\ results' = IF Mounted THEN RecordOutcome(results, a.i, outcome) ELSE results
  /\ loops' = Suspend(Leave(loops, a), [a EXCEPT !.pc = "delay"])
  /\ UNCHANGED <<normVars, verVars, discVars, previewVars, clientVars, setupVars, wizardVars, rowCount, isRunning, isPaused, currentRow, appVars, histVars>>

\* The delay of activation a elapses: i++, then the next iteration up to
\* the await of its request, or the exit of the loop.
DelayElapses(a) ==
  /\ a \in Activations
  /\ a.pc = "delay"
  /\ IF a.i + 1 < rowCount /\ ~a.isPaused
        THEN /\ Iterate(Leave(loops, a), a, a.i + 1)
             /\ UNCHANGED <<isRunning, currentStep, submissionResults, completeCalls>>
        ELSE /\ LoopExit(a)
             /\ loops' = Leave(loops, a)
             /\ UNCHANGED <<currentRow, results, issued, lastAttempted>>
  /\ UNCHANGED <<normVars, verVars, discVars, previewVars, clientVars, setupVars, wizardVars, rowCount, isPaused, nClicks, everPaused, everReset>>

\* The Pause button, rendered while isRunning.
PauseSubmission ==
  /\ Mounted
  /\ isRunning
  /\ nClicks < MaxClicks
  /\ nClicks' = nClicks + 1
  /\ isPaused' = TRUE
  /\ isRunning' = FALSE
  /\ everPaused' = TRUE
  /\ UNCHANGED <<normVars, verVars, discVars, previewVars, clientVars, setupVars, wizardVars, rowCount, results, currentRow, loops, appVars,
                 issued, completeCalls, lastAttempted, everReset>>

\* A reset that forgets setCurrentRow(0).
ResetSubmissionKeepsCursor ==
  /\ Mounted
  /\ ~isRunning
  /\ nClicks < MaxClicks
  /\ nClicks' = nClicks + 1
  /\ isRunning' = FALSE
  /\ isPaused' = FALSE
  /\ results' = resetResults(rowCount)
  /\ everReset' = TRUE
  /\ UNCHANGED <<normVars, verVars, discVars, previewVars, clientVars, setupVars, wizardVars, rowCount, currentRow, loops, appVars, issued, completeCalls,
                 lastAttempted, everPaused>>

\* The Reset button, disabled while isRunning.
ResetSubmission ==
  /\ Mounted
  /\ ~isRunning
  /\ nClicks < MaxClicks
  /\ nClicks' = nClicks + 1
  /\ isRunning' = FALSE
  /\ isPaused' = FALSE
  /\ currentRow' = 0
  /\ results' = resetResults(rowCount)
  /\ everReset' = TRUE
  /\ UNCHANGED <<normVars, verVars, discVars, previewVars, clientVars, setupVars, wizardVars, rowCount, loops, appVars, issued, completeCalls, lastAttempted,
                 everPaused>>

\* The bodies the server sends: the first row alone can be answered with an
\* empty one, the other rows get JSON.
OutcomesOf(rowIndex) == IF rowIndex = 0 THEN Outcomes ELSE Outcomes \ {"okbad"}

SomeRequestCompletes == \E a \in Activations : \E outcome \in OutcomesOf(a.i) : RequestCompletes(a, outcome)
SomeDelayElapses == \E a \in Activations : DelayElapses(a)

Next ==
  \/ StartSubmission
  \/ PauseSubmission
  \/ ResetSubmission
  \/ SomeRequestCompletes
  \/ SomeDelayElapses

Spec == Init /\ [][Next]_vars

\* Every issued request completes and every timer fires.  Every activation
\* leaves after finitely many steps, so fairness of the two kinds of step
\* is fairness for each activation.
FairSpec == Spec /\ WF_vars(SomeRequestCompletes) /\ WF_vars(SomeDelayElapses)

TypeOK ==
  /\ rowCount \in 1..MaxRows
  /\ isRunning \in BOOLEAN
  /\ isPaused \in BOOLEAN
  /\ currentRow \in 0..(rowCount - 1)
  /\ currentStep \in {"submission", "verification"}
  /\ \A a \in Activations : a.pc \in {"request", "delay"} /\ a.i \in 0..(rowCount - 1)

\* --------------------------------------------------------- mapping step

\* Field list that leaves out the request-body properties.
apiFieldsParametersOnly(endpoint) == endpoint.parameters

\* DataMapping.apiFields: the endpoint's parameters, then the properties of
\* its request-body schema.
apiFields(endpoint) ==
  endpoint.parameters \o
    (IF endpoint.requestBody = Undefined THEN << >>
     ELSE endpoint.requestBody[1].properties)

FieldNames(endpoint) == {apiFields(endpoint)[k].name : k \in 1..Len(apiFields(endpoint))}

HasMapping(ms, apiField) == \E k \in 1..Len(ms) : ms[k].apiField = apiField

\* prev.filter(m => m.apiField !== apiField)
RECURSIVE WithoutField(_, _)
WithoutField(ms, apiField) ==
  IF ms = << >> THEN << >>
  ELSE IF Head(ms).apiField = apiField THEN WithoutField(Tail(ms), apiField)
  ELSE << Head(ms) >> \o WithoutField(Tail(ms), apiField)

\* An updater that appends an entry without looking for an existing one.
MappingChangeAppend(prev, apiField, spreadsheetColumn) ==
  IF spreadsheetColumn # ""
  THEN Append(prev, [apiField |-> apiField, spreadsheetColumn |-> spreadsheetColumn,
                     transform |-> ""])
  ELSE prev

\* The updater handleMappingChange passes to setMappings.
MappingChange(prev, apiField, spreadsheetColumn) ==
  IF HasMapping(prev, apiField)
  THEN IF spreadsheetColumn = ""
       THEN WithoutField(prev, apiField)
       ELSE [k \in 1..Len(prev) |->
               IF prev[k].apiField = apiField
               THEN [prev[k] EXCEPT !.spreadsheetColumn = spreadsheetColumn]
               ELSE prev[k]]
  ELSE IF spreadsheetColumn # ""
       THEN Append(prev, [apiField |-> apiField, spreadsheetColumn |-> spreadsheetColumn,
                          transform |-> ""])
       ELSE prev

\* validateMappings: one error per required field without a mapping.
RECURSIVE MissingRequired(_, _)
MissingRequired(fields, ms) ==
  IF fields = << >> THEN << >>
  ELSE (IF Head(fields).required /\ ~HasMapping(ms, Head(fields).name)
        THEN << Head(fields).name >> ELSE << >>)
       \o MissingRequired(Tail(fields), ms)

validateMappings(ms, endpoint) == MissingRequired(apiFields(endpoint), ms)

isValid(ms, endpoint) == validateMappings(ms, endpoint) = << >> /\ Len(ms) > 0

\* generatePayload of the submission step, on the mapping set it is given.
buildPayload(ms, row) == ApplyMappings(ms, row, [f \in {} |-> 0])

\* The parsed spreadsheet App passes to the mapping step.
spreadsheetData ==
  [headers |-> << "name", "email" >>,
   rows |-> [k \in 1..MaxRows |-> Row(k - 1)]]

\* spreadsheetData[field]: the value of a property, undefined when the object
\* has none of that name.
Property(obj, field) == IF field \in DOMAIN obj THEN Some(obj[field]) ELSE Undefined

\* useState(0); the select that sets it is part of the preview block.
previewRowIndex == 0

\* generatePreviewPayload(rowIndex): `spreadsheetData.roots[rowIndex]` raises
\* a TypeError when spreadsheetData.roots is undefined.
generatePreviewPayload(ms, rowIndex) ==
  LET rows == Property(spreadsheetData, "roots")
  IN IF rows = Undefined
     THEN [raised |-> TRUE, payload |-> Undefined]
     ELSE [raised |-> FALSE, payload |-> Some(buildPayload(ms, rows[1][rowIndex + 1]))]

\* The preview block of a render: shown with at least one mapping, it calls
\* generatePreviewPayload(previewRowIndex).
RenderPreview(show, ms) ==
  IF show /\ Len(ms) > 0
  THEN Some([rowIndex |-> previewRowIndex, mappings |-> ms,
             result |-> generatePreviewPayload(ms, previewRowIndex)])
  ELSE Undefined

\* A render of DataMapping raised: no error boundary is above it, so React
\* takes the whole tree down and no handler is left to call.
RenderFailed == dmPreview # Undefined /\ dmPreview[1].result.raised

\* The wizard on the mapping step, for any endpoint selected before.
MappingInit ==
  /\ SetupDone
  /\ EndpointDiscoveryIdle
  /\ PreviewIdle
  /\ ClientIdle
  /\ DiscoveryIdle
  /\ NormalizerIdle
  /\ VerificationIdle
  /\ currentStep = "mapping"
  /\ selectedEndpoint \in Endpoints
  /\ fieldMappings = << >>
  /\ dmMappings = << >>
  /\ dmRemoved = FALSE
  /\ sentPayload = Undefined
  /\ rowCount = MaxRows
  /\ results = << >>
  /\ isRunning = FALSE
  /\ isPaused = FALSE
  /\ currentRow = 0
  /\ loops = EmptyBag
  /\ submissionResults = << >>
  /\ issued = [r \in 0..(rowCount - 1) |-> 0]
  /\ completeCalls = 0
  /\ lastAttempted = -1
  /\ nClicks = 0
  /\ everPaused = FALSE
  /\ everReset = FALSE

\* A column is chosen in the select of one API field; the component renders
\* again with the new mapping set.
HandleMappingChange(apiField, spreadsheetColumn) ==
  /\ currentStep = "mapping"
  /\ ~RenderFailed
  /\ apiField \in FieldNames(selectedEndpoint)
  /\ dmMappings' = MappingChange(dmMappings, apiField, spreadsheetColumn)
  /\ dmRemoved' = (dmRemoved \/ Len(dmMappings') < Len(dmMappings))
  /\ dmPreview' = RenderPreview(showPreview, dmMappings')
  /\ UNCHANGED <<normVars, verVars, discVars, showPreview, clientVars, setupVars, subVars, currentStep, selectedEndpoint, fieldMappings, sentPayload>>

\* The Continue button, disabled unless isValid: handleComplete validates
\* again and calls onMappingComplete, which is App.handleMappingComplete.
HandleComplete ==
  /\ currentStep = "mapping"
  /\ ~RenderFailed
  /\ isValid(dmMappings, selectedEndpoint)
  /\ IF validateMappings(dmMappings, selectedEndpoint) = << >>
     THEN /\ fieldMappings' = dmMappings
          /\ currentStep' = "submission"
     ELSE UNCHANGED <<fieldMappings, currentStep>>
  /\ UNCHANGED <<normVars, verVars, discVars, previewVars, clientVars, setupVars, subVars, selectedEndpoint, dmMappings, dmRemoved, sentPayload>>

\* The Show Preview / Hide Preview button, disabled while there is no
\* mapping, and the render that follows.
TogglePreview ==
  /\ currentStep = "mapping"
  /\ ~RenderFailed
  /\ Len(dmMappings) > 0
  /\ showPreview' = ~showPreview
  /\ dmPreview' = RenderPreview(showPreview', dmMappings)
  /\ UNCHANGED <<normVars, verVars, discVars, clientVars, setupVars, subVars, currentStep,
                 selectedEndpoint, fieldMappings, dmMappings, dmRemoved, sentPayload>>

\* On the submission step, generatePayload builds the payload of a row
\* from the mapping set App passes down.
GeneratePayload(rowIndex) ==
  /\ currentStep = "submission"
  /\ sentPayload' = Some([rowIndex |-> rowIndex,
                          payload |-> buildPayload(fieldMappings, Row(rowIndex))])
  /\ UNCHANGED <<normVars, verVars, discVars, previewVars, clientVars, setupVars, subVars, currentStep, selectedEndpoint, fieldMappings, dmMappings, dmRemoved>>

SomeMappingChange ==
  \E apiField \in FieldNames(selectedEndpoint), spreadsheetColumn \in Headers \cup {""} :
    HandleMappingChange(apiField, spreadsheetColumn)
SomeGeneratePayload == \E rowIndex \in 0..(rowCount - 1) : GeneratePayload(rowIndex)

MappingNext ==
  \/ SomeMappingChange
  \/ TogglePreview
  \/ HandleComplete
  \/ SomeGeneratePayload

MappingSpec == MappingInit /\ [][MappingNext]_vars

\* --------------------------------------------------- endpoint discovery
\* Strings that are only concatenated are sequences of pieces; strings that
\* are split, trimmed or case-converted are sequences of characters.
baseUrl == << "https://host" >>

swaggerUrls ==
  << baseUrl \o << "/swagger.json" >>,
     baseUrl \o << "/api-docs" >>,
     baseUrl \o << "/openapi.json" >>,
     baseUrl \o << "/v2/api-docs" >>,
     baseUrl \o << "/swagger/v1/swagger.json" >> >>

commonPaths ==
  << << "/api/v1" >>, << "/odata/v4" >>, << "/rest/v1" >>, << "/services" >>, << "/data" >> >>

LowerLetters == << "a", "c", "d", "e", "g", "h", "l", "o", "p", "s", "t", "u" >>
UpperLetters == << "A", "C", "D", "E", "G", "H", "L", "O", "P", "S", "T", "U" >>

\* The letter at the place c has in `from`, or c when it has none.
MapLetter(from, to, c) ==
  IF \E k \in 1..Len(from) : from[k] = c
  THEN to[CHOOSE k \in 1..Len(from) : from[k] = c]
  ELSE c

toUpperCaseNone(w) == w

toUpperCase(w) == [k \in 1..Len(w) |-> MapLetter(LowerLetters, UpperLetters, w[k])]
toLowerCase(w) == [k \in 1..Len(w) |-> MapLetter(UpperLetters, LowerLetters, w[k])]

RECURSIVE trimStart(_)
trimStart(w) == IF w # << >> /\ Head(w) = " " THEN trimStart(Tail(w)) ELSE w

RECURSIVE trimEnd(_)
trimEnd(w) ==
  IF w # << >> /\ w[Len(w)] = " " THEN trimEnd(SubSeq(w, 1, Len(w) - 1)) ELSE w

trim(w) == trimEnd(trimStart(w))

\* s.split(','), with `cur` the token being read: the empty string gives
\* one empty token.
RECURSIVE splitFrom(_, _)
splitFrom(s, cur) ==
  IF s = << >> THEN << cur >>
  ELSE IF Head(s) = "," THEN << cur >> \o splitFrom(Tail(s), << >>)
  ELSE splitFrom(Tail(s), Append(cur, Head(s)))

split(s) == splitFrom(s, << >>)

GET == << "G", "E", "T" >>
POST == << "P", "O", "S", "T" >>
PUT == << "P", "U", "T" >>
DELETE == << "D", "E", "L", "E", "T", "E" >>

\* a || b on optional values: a unless it is undefined or one of the falsy
\* values of its kind.
OrJs(a, falsy, b) == IF a # Undefined /\ a[1] \notin falsy THEN a ELSE b

Constraints == {"type", "format", "enum", "maxLength", "minLength"}

FalsyOf(c) ==
  IF c \in {"type", "format"} THEN {""}
  ELSE IF c \in {"maxLength", "minLength"} THEN {0}
  ELSE {}

\* An object without any of the constraint keys.
NoConstraints == [c \in Constraints |-> Undefined]

\* parseParameters: one ApiParameter per parameter object.
parseParameter(param) ==
  LET nested(c) == IF param.schema = Undefined THEN Undefined ELSE param.schema[1][c]
      pick(c) == OrJs(nested(c), FalsyOf(c), param.flat[c])
  IN [name |-> param.name,
      type |-> OrJs(pick("type"), {""}, Some("string"))[1],
      required |-> OrJs(param.required, {FALSE}, Some(FALSE))[1],
      description |-> param.description,
      format |-> pick("format"),
      enum |-> pick("enum"),
      maxLength |-> pick("maxLength"),
      minLength |-> pick("minLength")]

parseParameters(parameters) ==
  [k \in 1..Len(parameters) |-> parseParameter(parameters[k])]

\* A schema normalisation that marks no property required.
parseSchemaNoneRequired(schema) ==
  LET props == IF schema.properties = Undefined THEN << >> ELSE schema.properties[1]
  IN [type |-> OrJs(schema.type, {""}, Some("object"))[1],
      properties |->
        [k \in 1..Len(props) |->
           [name |-> props[k].name,
            type |-> OrJs(props[k].prop["type"], {""}, Some("string"))[1],
            required |-> FALSE,
            description |-> props[k].description,
            format |-> props[k].prop["format"],
            enum |-> props[k].prop["enum"],
            maxLength |-> props[k].prop["maxLength"],
            minLength |-> props[k].prop["minLength"]]],
      required |-> IF schema.required = Undefined THEN << >> ELSE schema.required[1]]

\* parseSchema: schema.properties in key order, each marked required when
\* schema.required lists its name.
parseSchema(schema) ==
  LET props == IF schema.properties = Undefined THEN << >> ELSE schema.properties[1]
      listed(name) ==
        /\ schema.required # Undefined
        /\ \E k \in 1..Len(schema.required[1]) : schema.required[1][k] = name
  IN [type |-> OrJs(schema.type, {""}, Some("object"))[1],
      properties |->
        [k \in 1..Len(props) |->
           [name |-> props[k].name,
            type |-> OrJs(props[k].prop["type"], {""}, Some("string"))[1],
            required |-> listed(props[k].name),
            description |-> props[k].description,
            format |-> props[k].prop["format"],
            enum |-> props[k].prop["enum"],
            maxLength |-> props[k].prop["maxLength"],
            minLength |-> props[k].prop["minLength"]]],
      required |-> IF schema.required = Undefined THEN << >> ELSE schema.required[1]]

\* parseRequestBody: the first content type of requestBody.content and its
\* schema, or undefined when there is no schema.
parseRequestBody(requestBody) ==
  LET content == IF requestBody.content = Undefined THEN << >> ELSE requestBody.content[1]
      contentType == IF content = << >> THEN "application/json" ELSE content[1].contentType
      schema == IF content = << >> THEN Undefined ELSE content[1].media.schema
  IN IF schema # Undefined
     THEN Some([contentType |-> contentType, schema |-> parseSchema(schema[1])])
     ELSE Undefined

\* The method keys parseOpenApiSpec turns into endpoints.
IsSupportedKeyAny(method) == TRUE

IsSupportedKey(method) ==
  toLowerCase(method) \in {toLowerCase(GET), toLowerCase(POST), toLowerCase(PUT), toLowerCase(DELETE)}

\* An endpoint whose path leaves out the basePath.
OperationEndpointNoBase(basePath, path, method, methodObj) ==
  [method |-> toUpperCase(method),
   path |-> path,
   fullUrl |-> baseUrl \o basePath \o path,
   description |->
     OrJs(methodObj.summary, {<< >>},
          OrJs(methodObj.description, {<< >>},
               Some(toUpperCase(method) \o << " " >> \o path)))[1],
   parameters |->
     parseParameters(IF methodObj.parameters = Undefined THEN << >>
                     ELSE methodObj.parameters[1]),
   requestBody |->
     IF methodObj.requestBody = Undefined THEN Undefined
     ELSE parseRequestBody(methodObj.requestBody[1])]

\* The endpoint pushed for one supported method of one path.
OperationEndpoint(basePath, path, method, methodObj) ==
  [method |-> toUpperCase(method),
   path |-> basePath \o path,
   fullUrl |-> baseUrl \o basePath \o path,
   description |->
     OrJs(methodObj.summary, {<< >>},
          OrJs(methodObj.description, {<< >>},
               Some(toUpperCase(method) \o << " " >> \o path)))[1],
   parameters |->
     parseParameters(IF methodObj.parameters = Undefined THEN << >>
                     ELSE methodObj.parameters[1]),
   requestBody |->
     IF methodObj.requestBody = Undefined THEN Undefined
     ELSE parseRequestBody(methodObj.requestBody[1])]

\* The inner forEach: the entries of one path object, in key order (an
\* object is the record of its entries, so that it compares with null).
RECURSIVE PathEndpoints(_, _, _)
PathEndpoints(basePath, path, entries) ==
  IF entries = << >> THEN << >>
  ELSE (IF IsSupportedKey(Head(entries).method)
        THEN << OperationEndpoint(basePath, path, Head(entries).method, Head(entries).methodObj) >>
        ELSE << >>)
       \o PathEndpoints(basePath, path, Tail(entries))

\* The outer forEach: the entries of spec.paths, in key order.
RECURSIVE SpecEndpoints(_, _)
SpecEndpoints(basePath, paths) ==
  IF paths = << >> THEN << >>
  ELSE PathEndpoints(basePath, Head(paths).path, Head(paths).pathObj.entries)
       \o SpecEndpoints(basePath, Tail(paths))

\* parseOpenApiSpec throws a TypeError: the document is null, a path object
\* is null, or the object of a supported method is null.
ParseRaises(spec) ==
  \/ spec = JsNull
  \/ /\ spec.paths # Undefined
     /\ \E k \in 1..Len(spec.paths[1]) :
          LET pathObj == spec.paths[1][k].pathObj
          IN \/ pathObj = JsNull
             \/ \E j \in 1..Len(pathObj.entries) :
                  /\ IsSupportedKey(pathObj.entries[j].method)
                  /\ pathObj.entries[j].methodObj = JsNull

parseOpenApiSpec(spec) ==
  LET basePath == OrJs(spec.basePath, {<< >>}, Some(<< >>))[1]
  IN IF spec.paths = Undefined THEN << >> ELSE SpecEndpoints(basePath, spec.paths[1])

\* The endpoints pushed for one successful OPTIONS response.
ManualEndpoints(path, allow) ==
  LET allowHeader == OrJs(allow, {<< >>}, Some(<< >>))[1]
      tokens == split(allowHeader)
      methods == [k \in 1..Len(tokens) |-> toUpperCase(trim(tokens[k]))]
      supported == SelectSeq(methods, LAMBDA method : method \in {GET, POST, PUT, DELETE})
  IN [k \in 1..Len(supported) |->
        [method |-> supported[k],
         path |-> path,
         fullUrl |-> baseUrl \o path,
         description |-> supported[k] \o << " endpoint at " >> \o path,
         parameters |-> << >>,
         requestBody |-> Undefined]]

\* What fetch gives for one probe: a rejected promise, or a response with a
\* status, an Allow header (absent or a string) and a body (json() rejects
\* when it is absent, resolves to the value otherwise).
Rejected == [rejected |-> TRUE, ok |-> FALSE, allow |-> Undefined, body |-> Undefined]
Response(ok, allow, body) == [rejected |-> FALSE, ok |-> ok, allow |-> allow, body |-> body]

\* Operation objects of the documents.
PlainOperation ==
  [summary |-> Undefined, description |-> Undefined,
   parameters |-> Undefined, requestBody |-> Undefined]

CreateOperation ==
  [summary |-> Some(<< "Create user" >>), description |-> Undefined,
   parameters |->
     Some(<< [name |-> "dryRun", required |-> Undefined, description |-> Undefined,
              flat |-> [NoConstraints EXCEPT !["type"] = Some("boolean")],
              schema |-> Undefined],
             [name |-> "tenant", required |-> Some(TRUE), description |-> Undefined,
              flat |-> [NoConstraints EXCEPT !["type"] = Some("number")],
              schema |-> Some([NoConstraints EXCEPT !["type"] = Some("string"),
                                                   !["maxLength"] = Some(8)])] >>),
   requestBody |->
     Some([content |->
       Some(<< [contentType |-> "application/json",
                media |-> [schema |->
                  Some([type |-> Undefined,
                        properties |->
                          Some(<< [name |-> "mail", description |-> Undefined,
                                   prop |-> [NoConstraints EXCEPT !["type"] = Some("string")]],
                                  [name |-> "title", description |-> Undefined,
                                   prop |-> NoConstraints] >>),
                        required |-> Some(<< "mail" >>)])]] >>)])]

\* The JSON documents a documentation URL can answer with.
DocNoPaths == [basePath |-> Undefined, paths |-> Undefined]

DocUsers ==
  [basePath |-> Some(<< "/v2" >>),
   paths |-> Some(<< [path |-> << "/users" >>,
                      pathObj |-> [entries |->
                        << [method |-> << "g", "e", "t" >>, methodObj |-> PlainOperation],
                           [method |-> POST, methodObj |-> CreateOperation],
                           [method |-> << "p", "a", "t", "c", "h" >>,
                            methodObj |-> PlainOperation] >>]] >>)]

DocUnsupportedOnly ==
  [basePath |-> Undefined,
   paths |-> Some(<< [path |-> << "/jobs" >>,
                      pathObj |-> [entries |->
                        << [method |-> << "h", "e", "a", "d" >>,
                            methodObj |-> PlainOperation] >>]] >>)]

DocNullPath ==
  [basePath |-> Undefined,
   paths |-> Some(<< [path |-> << "/users" >>, pathObj |-> JsNull] >>)]

Docs == {JsNull, DocNoPaths, DocUsers, DocUnsupportedOnly, DocNullPath}

\* The Allow headers an OPTIONS response can carry: "GET, post,PATCH,get"
\* and "HEAD".
AllowMixed ==
  << "G", "E", "T", ",", " ", "p", "o", "s", "t", ",",
     "P", "A", "T", "C", "H", ",", "g", "e", "t" >>
AllowHead == << "H", "E", "A", "D" >>
AllowHeaders == {Undefined, Some(AllowMixed), Some(AllowHead)}

DocReplies ==
  {Rejected, Response(FALSE, Undefined, Undefined), Response(TRUE, Undefined, Undefined)}
  \cup {Response(TRUE, Undefined, Some(d)) : d \in Docs}

OptionsReplies ==
  {Rejected, Response(FALSE, Some(AllowMixed), Undefined)}
  \cup {Response(TRUE, h, Undefined) : h \in AllowHeaders}

\* The reply carries a document that parses and normalises.
Usable(reply) ==
  /\ ~reply.rejected
  /\ reply.ok
  /\ reply.body # Undefined
  /\ ~ParseRaises(reply.body[1])

\* The entry the probe log keeps of a request and its reply.
Probe(method, url, reply) ==
  [method |-> method,
   url |-> url,
   ok |-> ~reply.rejected /\ reply.ok,
   usable |-> method = "GET" /\ Usable(reply),
   allow |-> IF method = "OPTIONS" /\ ~reply.rejected /\ reply.ok
             THEN OrJs(reply.allow, {<< >>}, Some(<< >>))
             ELSE Undefined]

\* discoverEndpoints has been called and is about to probe the first URL.
DiscoveryInit ==
  /\ SetupDone
  /\ edEndpoints = << >>
  /\ edError = << >>
  /\ isDiscovering = TRUE
  /\ PreviewIdle
  /\ ClientIdle
  /\ NormalizerIdle
  /\ VerificationIdle
  /\ discPc = "docs"
  /\ discIdx = 0
  /\ probes = << >>
  /\ discEndpoints = << >>
  /\ discDoc = Undefined
  /\ discResult = Undefined
  /\ currentStep = "endpoints"
  /\ selectedEndpoint = JsNull
  /\ fieldMappings = << >>
  /\ dmMappings = << >>
  /\ dmRemoved = FALSE
  /\ sentPayload = Undefined
  /\ rowCount = MaxRows
  /\ results = << >>
  /\ isRunning = FALSE
  /\ isPaused = FALSE
  /\ currentRow = 0
  /\ loops = EmptyBag
  /\ submissionResults = << >>
  /\ issued = [r \in 0..(rowCount - 1) |-> 0]
  /\ completeCalls = 0
  /\ lastAttempted = -1
  /\ nClicks = 0
  /\ everPaused = FALSE
  /\ everReset = FALSE

\* A documentation probe that goes on to the next URL even after a document
\* it could return.
DocProbeKeepsGoing(reply) ==
  /\ discPc = "docs"
  /\ probes' = Append(probes, Probe("GET", swaggerUrls[discIdx + 1], reply))
  /\ discDoc' = IF Usable(reply) THEN reply.body ELSE discDoc
  /\ IF discIdx + 1 < Len(swaggerUrls)
     THEN /\ discIdx' = discIdx + 1
          /\ UNCHANGED discPc
     ELSE /\ discIdx' = 0
          /\ discPc' = "manual"
  /\ UNCHANGED <<discEndpoints, discResult, wizardVars, subVars, currentStep,
               normVars, verVars, previewVars, clientVars, setupVars>>

\* A documentation probe without the catch: a rejected request ends the call
\* with the exception.
DocProbeRaises(reply) ==
  /\ discPc = "docs"
  /\ probes' = Append(probes, Probe("GET", swaggerUrls[discIdx + 1], reply))
  /\ IF reply.rejected
     THEN /\ discPc' = "raised"
          /\ UNCHANGED <<discIdx, discResult, discDoc>>
     ELSE IF reply.ok /\ reply.body # Undefined /\ ~ParseRaises(reply.body[1])
     THEN /\ discResult' = Some(parseOpenApiSpec(reply.body[1]))
          /\ discDoc' = reply.body
          /\ discPc' = "done"
          /\ UNCHANGED discIdx
     ELSE /\ IF discIdx + 1 < Len(swaggerUrls)
             THEN /\ discIdx' = discIdx + 1
                  /\ UNCHANGED discPc
             ELSE /\ discIdx' = 0
                  /\ discPc' = "manual"
          /\ UNCHANGED <<discResult, discDoc>>
  /\ UNCHANGED <<discEndpoints, wizardVars, subVars, currentStep,
                 normVars, verVars, previewVars, clientVars, setupVars>>

\* A documentation probe whose try block ends before the parsing: a
\* successful reply that does not parse or normalise ends the call with the
\* exception.
DocProbeParseOutsideTry(reply) ==
  /\ discPc = "docs"
  /\ probes' = Append(probes, Probe("GET", swaggerUrls[discIdx + 1], reply))
  /\ IF ~reply.rejected /\ reply.ok
     THEN IF reply.body # Undefined /\ ~ParseRaises(reply.body[1])
          THEN /\ discResult' = Some(parseOpenApiSpec(reply.body[1]))
               /\ discDoc' = reply.body
               /\ discPc' = "done"
               /\ UNCHANGED discIdx
          ELSE /\ discPc' = "raised"
               /\ UNCHANGED <<discIdx, discResult, discDoc>>
     ELSE /\ IF discIdx + 1 < Len(swaggerUrls)
             THEN /\ discIdx' = discIdx + 1
                  /\ UNCHANGED discPc
             ELSE /\ discIdx' = 0
                  /\ discPc' = "manual"
          /\ UNCHANGED <<discResult, discDoc>>
  /\ UNCHANGED <<discEndpoints, wizardVars, subVars, currentStep,
                 normVars, verVars, previewVars, clientVars, setupVars>>

\* One turn of the loop over swaggerUrls: the request, and either the return
\* of the normalised document or the step to the next URL, the call of
\* discoverEndpointsManually after the last one.
DocProbe(reply) ==
  /\ discPc = "docs"
  /\ probes' = Append(probes, Probe("GET", swaggerUrls[discIdx + 1], reply))
  /\ IF ~reply.rejected /\ reply.ok /\ reply.body # Undefined /\ ~ParseRaises(reply.body[1])
     THEN /\ discResult' = Some(parseOpenApiSpec(reply.body[1]))
          /\ discDoc' = reply.body
          /\ discPc' = "done"
          /\ UNCHANGED discIdx
     ELSE /\ IF discIdx + 1 < Len(swaggerUrls)
             THEN /\ discIdx' = discIdx + 1
                  /\ UNCHANGED discPc
             ELSE /\ discIdx' = 0
                  /\ discPc' = "manual"
          /\ UNCHANGED <<discResult, discDoc>>
  /\ UNCHANGED <<discEndpoints, wizardVars, subVars, currentStep,
               normVars, verVars, previewVars, clientVars, setupVars>>

\* One turn of the loop over commonPaths: the OPTIONS request, the endpoints
\* of its Allow header, and the return after the last path.
OptionsProbe(reply) ==
  /\ discPc = "manual"
  /\ LET path == commonPaths[discIdx + 1]
         found == IF ~reply.rejected /\ reply.ok
                  THEN ManualEndpoints(path, reply.allow)
                  ELSE << >>
     IN /\ probes' = Append(probes, Probe("OPTIONS", baseUrl \o path, reply))
        /\ discEndpoints' = discEndpoints \o found
        /\ IF discIdx + 1 < Len(commonPaths)
           THEN /\ discIdx' = discIdx + 1
                /\ UNCHANGED <<discPc, discResult>>
           ELSE /\ discPc' = "done"
                /\ discResult' = Some(discEndpoints \o found)
                /\ UNCHANGED discIdx
  /\ UNCHANGED <<discDoc, wizardVars, subVars, currentStep,
               normVars, verVars, previewVars, clientVars, setupVars>>

SomeDocProbe == \E reply \in DocReplies : DocProbe(reply)
SomeOptionsProbe == \E reply \in OptionsReplies : OptionsProbe(reply)

DiscoveryNext ==
  \/ SomeDocProbe
  \/ SomeOptionsProbe

DiscoverySpec == DiscoveryInit /\ [][DiscoveryNext]_vars

\* ------------------------------------------------- the schema normalizer
\* The inputs the normalizer is tried on.  Method keys under a path: two
\* spellings of get, one of put, and patch.
MethodKeys ==
  { << "g", "e", "t" >>, GET, << "P", "u", "t" >>, << "p", "a", "t", "c", "h" >> }

\* The operation object under a method key.
OperationOf(method) ==
  IF method = << "P", "u", "t" >> THEN CreateOperation ELSE PlainOperation

\* Path objects: up to two distinct keys, in either order.
PathObjects ==
  { [entries |-> << >>] }
  \cup { [entries |-> << [method |-> m, methodObj |-> OperationOf(m)] >>] : m \in MethodKeys }
  \cup { [entries |-> << [method |-> ms[1], methodObj |-> OperationOf(ms[1])],
                         [method |-> ms[2], methodObj |-> OperationOf(ms[2])] >>] :
           ms \in {x \in MethodKeys \X MethodKeys : x[1] # x[2]} }

PathNames == { << "/users" >>, << "/jobs" >> }

\* spec.paths: up to two distinct paths.
PathTables ==
  { << >> }
  \cup { << [path |-> p, pathObj |-> o] >> : p \in PathNames, o \in PathObjects }
  \cup { << [path |-> ps[1], pathObj |-> o1], [path |-> ps[2], pathObj |-> o2] >> :
           ps \in {x \in PathNames \X PathNames : x[1] # x[2]},
           o1 \in PathObjects, o2 \in PathObjects }

DocSpace ==
  { [basePath |-> b, paths |-> ps] :
      b \in {Undefined, Some(<< "/v2" >>)},
      ps \in {Undefined} \cup { Some(t) : t \in PathTables } }

\* The values a constraint key can have where it is flat on the parameter
\* and where it is nested in the parameter's schema.
FlatValues(c) ==
  IF c = "type" THEN {Undefined, Some("number")}
  ELSE IF c = "format" THEN {Undefined, Some("int32")}
  ELSE IF c = "enum" THEN {Undefined, Some(<< "a" >>)}
  ELSE {Undefined, Some(5)}

NestedValues(c) ==
  IF c = "type" THEN {Undefined, Some("string"), Some("")}
  ELSE IF c = "format" THEN {Undefined, Some("email")}
  ELSE IF c = "enum" THEN {Undefined, Some(<< "b" >>)}
  ELSE {Undefined, Some(8), Some(0)}

\* The objects that carry, for each constraint key, one of its nested values
\* (or of its flat values).
ConstraintObjects(nested) ==
  LET Values(c) == IF nested THEN NestedValues(c) ELSE FlatValues(c)
  IN { [c \in Constraints |->
          IF c = "type" THEN t ELSE IF c = "format" THEN f ELSE IF c = "enum" THEN e
          ELSE IF c = "maxLength" THEN mx ELSE mn] :
         t \in Values("type"), f \in Values("format"), e \in Values("enum"),
         mx \in Values("maxLength"), mn \in Values("minLength") }

ParamSpace ==
  { [name |-> "tenant", required |-> Undefined, description |-> Undefined,
     flat |-> fl, schema |-> sc] :
      fl \in ConstraintObjects(FALSE),
      sc \in {Undefined} \cup { Some(n) : n \in ConstraintObjects(TRUE) } }

\* Request-body schemas: up to two properties, and a required array that is
\* absent, empty, or names properties of the schema and others.
SchemaSpace ==
  { [type |-> Undefined, properties |-> props, required |-> req] :
      props \in { Undefined,
                  Some(<< [name |-> "mail", description |-> Undefined, prop |-> NoConstraints] >>),
                  Some(<< [name |-> "mail", description |-> Undefined, prop |-> NoConstraints],
                          [name |-> "title", description |-> Undefined, prop |-> NoConstraints] >>) },
      req \in { Undefined, Some(<< >>), Some(<< "mail" >>), Some(<< "title", "id" >>) } }

MediaSpace == { [schema |-> sc] : sc \in {Undefined} \cup { Some(x) : x \in SchemaSpace } }

ContentTypes == { "application/json", "application/xml" }

\* requestBody objects: content absent, or up to two content types.
BodySpace ==
  { [content |-> Undefined] }
  \cup { [content |-> Some(<< [contentType |-> t, media |-> m] >>)] :
           t \in ContentTypes, m \in MediaSpace }
  \cup { [content |-> Some(<< [contentType |-> ts[1], media |-> m1],
                             [contentType |-> ts[2], media |-> m2] >>)] :
           ts \in {x \in ContentTypes \X ContentTypes : x[1] # x[2]},
           m1 \in MediaSpace, m2 \in MediaSpace }

\* The normalizer has been handed one value and has not run yet.
NormalizerInit ==
  /\ SetupDone
  /\ EndpointDiscoveryIdle
  /\ PreviewIdle
  /\ ClientIdle
  /\ normInput \in { Some([kind |-> "document", value |-> x]) : x \in DocSpace }
                   \cup { Some([kind |-> "parameter", value |-> x]) : x \in ParamSpace }
                   \cup { Some([kind |-> "requestBody", value |-> x]) : x \in BodySpace }
  /\ normOutput = Undefined
  /\ DiscoveryIdle
  /\ VerificationIdle
  /\ currentStep = "endpoints"
  /\ selectedEndpoint = JsNull
  /\ fieldMappings = << >>
  /\ dmMappings = << >>
  /\ dmRemoved = FALSE
  /\ sentPayload = Undefined
  /\ rowCount = MaxRows
  /\ results = << >>
  /\ isRunning = FALSE
  /\ isPaused = FALSE
  /\ currentRow = 0
  /\ loops = EmptyBag
  /\ submissionResults = << >>
  /\ issued = [r \in 0..(rowCount - 1) |-> 0]
  /\ completeCalls = 0
  /\ lastAttempted = -1
  /\ nClicks = 0
  /\ everPaused = FALSE
  /\ everReset = FALSE

\* parseOpenApiSpec(spec) returns.
NormalizeDocument ==
  /\ normInput # Undefined /\ normInput[1].kind = "document"
  /\ normOutput = Undefined
  /\ ~ParseRaises(normInput[1].value)
  /\ normOutput' = Some(parseOpenApiSpec(normInput[1].value))
  /\ UNCHANGED <<normInput, verVars, discVars, previewVars, clientVars, setupVars, wizardVars, subVars, currentStep>>

\* parseParameters([param]) returns.
NormalizeParameter ==
  /\ normInput # Undefined /\ normInput[1].kind = "parameter"
  /\ normOutput = Undefined
  /\ normOutput' = Some(parseParameters(<< normInput[1].value >>))
  /\ UNCHANGED <<normInput, verVars, discVars, previewVars, clientVars, setupVars, wizardVars, subVars, currentStep>>

\* parseRequestBody(requestBody) returns, undefined or a request body.
NormalizeRequestBody ==
  /\ normInput # Undefined /\ normInput[1].kind = "requestBody"
  /\ normOutput = Undefined
  /\ normOutput' = Some(parseRequestBody(normInput[1].value))
  /\ UNCHANGED <<normInput, verVars, discVars, previewVars, clientVars, setupVars, wizardVars, subVars, currentStep>>

NormalizerNext ==
  \/ NormalizeDocument
  \/ NormalizeParameter
  \/ NormalizeRequestBody

NormalizerSpec == NormalizerInit /\ [][NormalizerNext]_vars

\* ------------------------------------------------------- the HTTP client
\* The endpoints submitData is tried on.
SubmitMethods == {"GET", "POST", "PUT", "DELETE"}
SubmitUrls == {baseUrl \o << "/v2/users" >>, baseUrl \o << "/api/v1" >>}

\* JSON scalars, and the payload objects as their entries in insertion
\* order; an entry can hold undefined (a column the row does not have).
JsonString(text) == [type |-> "string", text |-> text]
JsonNumber(text) == [type |-> "number", text |-> text]

DataSpace ==
  { << >>,
    << [key |-> "mail", value |-> Some(JsonString("a"))] >>,
    << [key |-> "mail", value |-> Some(JsonString("a"))],
       [key |-> "title", value |-> Some(JsonNumber("10"))] >>,
    << [key |-> "mail", value |-> Undefined],
       [key |-> "title", value |-> Some(JsonNumber("10"))] >> }

\* What fetch can settle with: a rejection (no connection, CORS), or a
\* response with any status.
NetworkReplies ==
  { [rejected |-> TRUE, status |-> 0] }
  \cup { [rejected |-> FALSE, status |-> st] : st \in {200, 201, 400, 404, 500} }

\* JSON.stringify of a scalar.
stringifyValue(v) ==
  IF v.type = "string" THEN << "\"", v.text, "\"" >> ELSE << v.text >>

\* JSON.stringify of the entries of an object: entries holding undefined are
\* left out, the others are separated by commas.
RECURSIVE stringifyEntries(_, _)
stringifyEntries(entries, first) ==
  IF entries = << >> THEN << >>
  ELSE LET e == Head(entries)
       IN IF e.value = Undefined
          THEN stringifyEntries(Tail(entries), first)
          ELSE (IF first THEN << >> ELSE << "," >>)
               \o << "\"", e.key, "\"", ":" >> \o stringifyValue(e.value[1])
               \o stringifyEntries(Tail(entries), FALSE)

stringify(data) == << "{" >> \o stringifyEntries(data, TRUE) \o << "}" >>

\* The constructor's `Basic ${btoa(`${username}:${password}`)}`.
authHeader(creds) ==
  << "Basic ", [base64 |-> << creds.username, ":", creds.password >>] >>

\* makeRequest(url, options): one fetch with the merged headers; the promise
\* resolves with the response whatever its status, and rejects when fetch
\* does.
makeRequest(creds, url, options, reply) ==
  [requests |-> << [url |-> url, method |-> options.method, body |-> options.body,
                    headers |-> [Authorization |-> authHeader(creds),
                                 ContentType |-> "application/json"]] >>,
   raised |-> reply.rejected,
   response |-> IF reply.rejected THEN Undefined
                ELSE Some([status |-> reply.status,
                           ok |-> reply.status >= 200 /\ reply.status <= 299])]

\* A test that lets POST alone carry a body.
HasBodyPostOnly(method) == method = "POST"

\* ['POST', 'PUT'].includes(method)
HasBody(method) == method \in {"POST", "PUT"}

submitData(creds, endpoint, data, reply) ==
  LET url == endpoint.fullUrl
      method == endpoint.method
      options == [method |-> method,
                  body |-> IF HasBody(method) THEN Some(stringify(data)) ELSE Undefined]
  IN makeRequest(creds, url, options, reply)

\* submitData is about to be called with an endpoint and a payload, the
\* network ready to answer.
ClientInit ==
  /\ SetupDone
  /\ EndpointDiscoveryIdle
  /\ PreviewIdle
  /\ DiscoveryIdle
  /\ NormalizerIdle
  /\ VerificationIdle
  /\ clientCall \in { Some([endpoint |-> [method |-> m, fullUrl |-> u], data |-> d, reply |-> r]) :
                        m \in SubmitMethods, u \in SubmitUrls, d \in DataSpace,
                        r \in NetworkReplies }
  /\ clientOutcome = Undefined
  /\ currentStep = "submission"
  /\ selectedEndpoint = SubmissionEndpoint
  /\ fieldMappings = mappings
  /\ dmMappings = mappings
  /\ dmRemoved = FALSE
  /\ sentPayload = Undefined
  /\ rowCount = MaxRows
  /\ results = initialResults(rowCount)
  /\ isRunning = FALSE
  /\ isPaused = FALSE
  /\ currentRow = 0
  /\ loops = EmptyBag
  /\ submissionResults = << >>
  /\ issued = [r \in 0..(rowCount - 1) |-> 0]
  /\ completeCalls = 0
  /\ lastAttempted = -1
  /\ nClicks = 0
  /\ everPaused = FALSE
  /\ everReset = FALSE

\* The call settles.
SubmitData ==
  /\ clientCall # Undefined
  /\ clientOutcome = Undefined
  /\ clientOutcome' = Some(submitData(apiClient[1].credentials, clientCall[1].endpoint,
                                      clientCall[1].data, clientCall[1].reply))
  /\ UNCHANGED <<clientCall, normVars, verVars, discVars, previewVars, setupVars,
                 wizardVars, subVars, currentStep>>

ClientNext == SubmitData

ClientSpec == ClientInit /\ [][ClientNext]_vars

\* ------------------------------------------------ credentials and setup
\* The values typed into the three inputs.  '' is the empty sequence for the
\* base URL, whose text the client concatenates.
BaseUrls == {<< >>, << "host" >>, baseUrl}
Usernames == {"", "u"}
Passwords == {"", "p", "q"}

FieldValues(field) ==
  IF field = "baseUrl" THEN BaseUrls
  ELSE IF field = "username" THEN Usernames
  ELSE Passwords

\* `new URL(text)` returns: the text is an absolute URL.  Of the texts
\* above, 'https://host' is one; 'host' and '' make the constructor raise.
UrlParses(text) == text # << >> /\ Head(text) \in {"https://host"}

\* credentials.baseUrl && credentials.username && credentials.password
isFormValid(creds) ==
  creds.baseUrl # << >> /\ creds.username # "" /\ creds.password # ""

\* What the request of testConnection can settle with.
TestReplies ==
  { [rejected |-> TRUE, status |-> "", statusText |-> ""],
    [rejected |-> FALSE, status |-> "200", statusText |-> "OK"],
    [rejected |-> FALSE, status |-> "401", statusText |-> "Unauthorized"],
    [rejected |-> FALSE, status |-> "500", statusText |-> "Internal Server Error"] }

\* response.ok
StatusOk(reply) == ~reply.rejected /\ reply.status \in {"200"}

\* testConnection(): true for a 2xx response; the Error it throws for
\* another status, or the rejection of fetch, passed on.
testConnection(reply) ==
  IF reply.rejected
  THEN [raised |-> TRUE, message |-> << "Failed to fetch" >>]
  ELSE IF ~StatusOk(reply)
  THEN [raised |-> TRUE,
        message |-> << "Connection failed: ", reply.status, " ", reply.statusText >>]
  ELSE [raised |-> FALSE, message |-> << >>]

\* The wizard on the credentials step with an empty form.
SetupInit ==
  /\ currentStep = "credentials"
  /\ credentials = [baseUrl |-> << >>, username |-> "", password |-> ""]
  /\ isValidating = FALSE
  /\ validationStatus = "idle"
  /\ credError = << >>
  /\ testing = Undefined
  /\ lastTest = Undefined
  /\ apiClient = Undefined
  /\ appCredentials = Undefined
  /\ errorMessage = Undefined
  /\ EndpointDiscoveryIdle
  /\ DiscoveryIdle
  /\ PreviewIdle
  /\ ClientIdle
  /\ NormalizerIdle
  /\ VerificationIdle
  /\ selectedEndpoint = JsNull
  /\ fieldMappings = << >>
  /\ dmMappings = << >>
  /\ dmRemoved = FALSE
  /\ sentPayload = Undefined
  /\ rowCount = MaxRows
  /\ results = << >>
  /\ isRunning = FALSE
  /\ isPaused = FALSE
  /\ currentRow = 0
  /\ loops = EmptyBag
  /\ submissionResults = << >>
  /\ issued = [r \in 0..(rowCount - 1) |-> 0]
  /\ completeCalls = 0
  /\ lastAttempted = -1
  /\ nClicks = 0
  /\ everPaused = FALSE
  /\ everReset = FALSE

\* An input that can be edited while a validation is under way.
HandleInputChangeWhileValidating(field, value) ==
  /\ currentStep = "credentials"
  /\ credentials' = [credentials EXCEPT ![field] = value]
  /\ validationStatus' = "idle"
  /\ credError' = << >>
  /\ UNCHANGED <<isValidating, testing, lastTest, apiClient, appCredentials, errorMessage,
                 edEndpoints, edError, isDiscovering, currentStep,
                 normVars, verVars, discVars, previewVars, clientVars, wizardVars, subVars>>

\* handleInputChange(field, value), from an input; the inputs are disabled
\* while isValidating.
HandleInputChange(field, value) ==
  /\ currentStep = "credentials"
  /\ ~isValidating
  /\ credentials' = [credentials EXCEPT ![field] = value]
  /\ validationStatus' = "idle"
  /\ credError' = << >>
  /\ UNCHANGED <<isValidating, testing, lastTest, apiClient, appCredentials, errorMessage,
                 edEndpoints, edError, isDiscovering, currentStep,
                 normVars, verVars, discVars, previewVars, clientVars, wizardVars, subVars>>

\* The Test Connection button, disabled unless the form is filled and no
\* validation is under way: validateCredentials up to its await, where it
\* holds the client built from the credentials of this render.
ValidateCredentials ==
  /\ currentStep = "credentials"
  /\ isFormValid(credentials)
  /\ ~isValidating
  /\ IF ~isFormValid(credentials)
     THEN /\ credError' = << "All fields are required" >>
          /\ UNCHANGED <<isValidating, testing>>
     ELSE IF ~UrlParses(credentials.baseUrl)
     THEN /\ credError' = << "Please enter a valid URL" >>
          /\ UNCHANGED <<isValidating, testing>>
     ELSE /\ isValidating' = TRUE
          /\ credError' = << >>
          /\ testing' = Some([credentials |-> credentials])
  /\ UNCHANGED <<credentials, validationStatus, lastTest, apiClient, appCredentials,
                 errorMessage, edEndpoints, edError, isDiscovering, currentStep,
                 normVars, verVars, discVars, previewVars, clientVars, wizardVars, subVars>>

\* App.handleError(message).
handleError(message) ==
  /\ errorMessage' = Some(message)
  /\ currentStep' = "error"

\* testConnection settles and validateCredentials runs to its end.  On
\* success App.handleCredentialsValidated stores the credentials and the
\* client and shows the endpoints step, where EndpointDiscovery mounts and
\* its effect calls discoverEndpoints; otherwise the form shows the message.
TestConnectionCompletes(reply) ==
  /\ testing # Undefined
  /\ LET client == testing[1]
         outcome == testConnection(reply)
     IN /\ lastTest' = Some([credentials |-> client.credentials, ok |-> ~outcome.raised])
        /\ IF ~outcome.raised
           THEN /\ validationStatus' = "success"
                /\ appCredentials' = Some(client.credentials)
                /\ apiClient' = Some(client)
                /\ currentStep' = "endpoints"
                /\ isDiscovering' = TRUE
                /\ edError' = << >>
                /\ discPc' = "docs"
                /\ UNCHANGED credError
           ELSE /\ validationStatus' = "error"
                /\ credError' = outcome.message
                /\ UNCHANGED <<appCredentials, apiClient, currentStep, isDiscovering,
                               edError, discPc>>
  /\ isValidating' = FALSE
  /\ testing' = Undefined
  /\ UNCHANGED <<credentials, errorMessage, edEndpoints,
                 discIdx, probes, discEndpoints, discDoc, discResult,
                 normVars, verVars, previewVars, clientVars, wizardVars, subVars>>

\* apiClient.discoverEndpoints() settles and EndpointDiscovery's
\* discoverEndpoints runs to its end: the list, with a note when it is empty,
\* or the catch block with onError.
DiscoveryReturns ==
  /\ currentStep = "endpoints"
  /\ isDiscovering
  /\ discPc \in {"done", "raised"}
  /\ IF discPc = "done"
     THEN /\ edEndpoints' = discResult[1]
          /\ edError' = IF Len(discResult[1]) = 0
                        THEN << "No endpoints were discovered. The API may not expose OpenAPI documentation." >>
                        ELSE edError
          /\ UNCHANGED <<errorMessage, currentStep>>
     ELSE /\ edError' = << "Failed to fetch" >>
          /\ handleError(<< "Failed to fetch" >>)
          /\ UNCHANGED edEndpoints
  /\ isDiscovering' = FALSE
  /\ UNCHANGED <<formVars, apiClient, appCredentials,
                 normVars, verVars, discVars, previewVars, clientVars, wizardVars, subVars>>

\* The Back to start button of the error page, rendered on the error step.
ErrorRetry ==
  /\ currentStep = "error"
  /\ errorMessage # Undefined
  /\ errorMessage' = Undefined
  /\ currentStep' = "upload"
  /\ UNCHANGED <<formVars, apiClient, appCredentials, edEndpoints, edError, isDiscovering,
                 normVars, verVars, discVars, previewVars, clientVars, wizardVars, subVars>>

SomeInputChange ==
  \E field \in {"baseUrl", "username", "password"} :
    \E value \in FieldValues(field) : HandleInputChange(field, value)
SomeTestConnectionCompletes == \E reply \in TestReplies : TestConnectionCompletes(reply)

SetupNext ==
  \/ SomeInputChange
  \/ ValidateCredentials
  \/ SomeTestConnectionCompletes
  \/ SomeDocProbe
  \/ SomeOptionsProbe
  \/ DiscoveryReturns

SetupSpec == SetupInit /\ [][SetupNext]_vars

\* --------------------------------------------------- verification step
\* JSON scalars are written with their type, "n:7" the number 7 and "s:7"
\* the string '7', so that strict equality is equality.
FalsyValues == {"n:0", "s:"}

\* obj?.key on a record, null or undefined.
Get(obj, key) == IF key \in DOMAIN obj THEN Some(obj[key]) ELSE Undefined

\* The payloads and response bodies of the successful submissions.
PayloadPlain == [mail |-> "s:a"]
PayloadWithId == [mail |-> "s:a", id |-> "n:9"]

\* One entry of the result table the submission step hands over: a row that
\* is pending or failed, or succeeded with one of the shapes of body and
\* payload an identifier is looked for in (the last one has lost its payload
\* to a reset).
SubmissionEntries(rowIndex) ==
  LET entry(status, payload, response, error) ==
        [rowIndex |-> rowIndex, status |-> status, payload |-> payload,
         response |-> response, error |-> error]
      common ==
        { entry("pending", Undefined, Undefined, Undefined),
          entry("error", Some(PayloadPlain), Some(JsNull), Some("HTTP 500: Internal Server Error")),
          entry("success", Some(PayloadPlain), Some([id |-> "n:7"]), Undefined),
          entry("success", Some(PayloadPlain), Some([status |-> "s:created"]), Undefined) }
  IN IF rowIndex # 0 THEN common
     ELSE common \cup
        { entry("success", Some(PayloadPlain), Some([ID |-> "n:8"]), Undefined),
          entry("success", Some(PayloadWithId), Some([status |-> "s:created"]), Undefined),
          entry("success", Some(PayloadPlain), Some([id |-> "n:0"]), Undefined),
          entry("success", Undefined, Some([id |-> "n:7"]), Undefined) }

\* The result tables of n rows.
RECURSIVE SubmissionTables(_)
SubmissionTables(n) ==
  IF n = 0 THEN { << >> }
  ELSE { Append(t, e) : t \in SubmissionTables(n - 1), e \in SubmissionEntries(n - 1) }

\* The base URL of the verification requests.
VerifyBase == << "https://host", "/v2/users" >>

\* verifyData's URL: `${getEndpoint}/${identifier}`.
verifyUrl(getEndpoint, identifier) == getEndpoint \o << "/", identifier >>

\* The records a verification GET can answer with.
RetrievedBodies ==
  { [mail |-> "s:a", id |-> "n:9", extra |-> "n:99"],
    [mail |-> "s:a", id |-> "s:9"],
    [id |-> "n:9"] }

\* What a verification request ends in: a rejected promise, a status that is
\* not 2xx, or 2xx with a JSON body or one that is not JSON.
VerifyReplies ==
  { [kind |-> "rejected", status |-> 0, body |-> Undefined],
    [kind |-> "response", status |-> 404, body |-> Undefined],
    [kind |-> "response", status |-> 500, body |-> Undefined],
    [kind |-> "response", status |-> 200, body |-> Undefined] }
  \cup { [kind |-> "response", status |-> 200, body |-> Some(r)] : r \in RetrievedBodies }

\* An error text without the status.
HttpErrorNoStatus(status) == << "HTTP error" >>

\* `HTTP ${status}: ${statusText}`.
HttpError(status) ==
  << "HTTP ", IF status = 500 THEN "500" ELSE "404", ": ",
     IF status = 500 THEN "Internal Server Error" ELSE "Not Found" >>

\* successfulSubmissions.
successfulSubmissions == SelectSeq(submissionResults, LAMBDA r : r.status = "success")

\* An initialisation that makes an entry for every submission result.
initializeVerificationAllRows ==
  [k \in 1..Len(submissionResults) |->
     [rowIndex |-> submissionResults[k].rowIndex,
      submitted |-> submissionResults[k].payload,
      status |-> "error",
      retrieved |-> Undefined,
      error |-> Some(<< "Verification not started" >>)]]

\* initializeVerification: one entry per successful submission.
initializeVerification ==
  [k \in 1..Len(successfulSubmissions) |->
     [rowIndex |-> successfulSubmissions[k].rowIndex,
      submitted |-> successfulSubmissions[k].payload,
      status |-> "error",
      retrieved |-> Undefined,
      error |-> Some(<< "Verification not started" >>)]]

\* The identifier of a successful submission:
\* result.response?.id || result.response?.ID || result.payload?.id.
identifierOf(result) ==
  LET response == IF result.response = Undefined THEN Undefined ELSE result.response[1]
      payload == IF result.payload = Undefined THEN Undefined ELSE result.payload[1]
  IN OrJs(Get(response, "id"), FalsyValues,
          OrJs(Get(response, "ID"), FalsyValues, Get(payload, "id")))

\* !identifier
NoIdentifier(result) ==
  identifierOf(result) = Undefined \/ identifierOf(result)[1] \in FalsyValues

\* A comparison that also wants every retrieved key in the payload.
compareDataBothWays(submitted, retrieved) ==
  /\ DOMAIN submitted = DOMAIN retrieved
  /\ \A key \in DOMAIN submitted : retrieved[key] = submitted[key]

\* compareData(submitted, retrieved) for two objects.
compareData(submitted, retrieved) ==
  \A key \in DOMAIN submitted : key \in DOMAIN retrieved /\ retrieved[key] = submitted[key]

\* Object.entries(submitted) or retrieved[key] throws a TypeError.
CompareRaises(submitted, retrieved) == submitted = Undefined \/ retrieved = JsNull

\* prev.map(r => r.rowIndex === rowIndex ? {...r, status, error} : r)
SetError(prev, rowIndex, status, error) ==
  [k \in 1..Len(prev) |->
     IF prev[k].rowIndex = rowIndex
     THEN [prev[k] EXCEPT !.status = status, !.error = Some(error)]
     ELSE prev[k]]

\* The update after a 2xx response.
SetCompared(prev, rowIndex, isMatch, retrievedData) ==
  [k \in 1..Len(prev) |->
     IF prev[k].rowIndex = rowIndex
     THEN [prev[k] EXCEPT !.status = IF isMatch THEN "verified" ELSE "mismatch",
                          !.retrieved = Some(retrievedData),
                          !.error = Undefined]
     ELSE prev[k]]

\* The loop from its k-th successful submission up to the next await: rows
\* without identifier are marked and skipped; the loop stops at the first
\* row with one, whose request it issues, or leaves past the last row.
RECURSIVE Advance(_, _)
Advance(prev, k) ==
  IF k > Len(successfulSubmissions)
  THEN [results |-> prev, pos |-> k, requesting |-> FALSE]
  ELSE IF NoIdentifier(successfulSubmissions[k])
  THEN Advance(SetError(prev, successfulSubmissions[k].rowIndex, "error",
                        << "No identifier found in response" >>), k + 1)
  ELSE [results |-> prev, pos |-> k, requesting |-> TRUE]

\* The state the loop is in after running from its k-th row to an await or
\* to its end, where it clears isVerifying.
Continue(prev, k) ==
  LET a == Advance(prev, k)
  IN /\ verificationResults' = a.results
     /\ verPos' = a.pos
     /\ IF a.requesting
        THEN /\ verPc' = "request"
             /\ isVerifying' = TRUE
             /\ verRequests' = verRequests \cup
                  { [rowIndex |-> successfulSubmissions[a.pos].rowIndex,
                     url |-> verifyUrl(getEndpointUrl[1],
                                       identifierOf(successfulSubmissions[a.pos])[1])] }
        ELSE /\ verPc' = "idle"
             /\ isVerifying' = FALSE
             /\ UNCHANGED verRequests

\* The verification step is mounted with the table of the submission step
\* and its init effect has run.
VerificationInit ==
  /\ SetupDone
  /\ EndpointDiscoveryIdle
  /\ PreviewIdle
  /\ ClientIdle
  /\ currentStep = "verification"
  /\ rowCount = MaxRows
  /\ submissionResults \in SubmissionTables(rowCount)
  /\ getEndpointUrl \in {Undefined, Some(VerifyBase)}
  /\ verificationResults =
       IF Len(successfulSubmissions) > 0 THEN initializeVerification ELSE << >>
  /\ isVerifying = FALSE
  /\ verPc = "idle"
  /\ verPos = 0
  /\ verRequests = {}
  /\ DiscoveryIdle
  /\ NormalizerIdle
  /\ selectedEndpoint = SubmissionEndpoint
  /\ fieldMappings = mappings
  /\ dmMappings = mappings
  /\ dmRemoved = FALSE
  /\ sentPayload = Undefined
  /\ results = << >>
  /\ isRunning = FALSE
  /\ isPaused = FALSE
  /\ currentRow = 0
  /\ loops = EmptyBag
  /\ issued = [r \in 0..(rowCount - 1) |-> 0]
  /\ completeCalls = 1
  /\ lastAttempted = -1
  /\ nClicks = 0
  /\ everPaused = FALSE
  /\ everReset = FALSE

\* A start that, without a URL, marks the first entry only.
StartVerificationMarksFirst ==
  /\ currentStep = "verification"
  /\ ~isVerifying
  /\ verPc = "idle"
  /\ IF getEndpointUrl = Undefined
     THEN /\ verificationResults' =
               [k \in 1..Len(verificationResults) |->
                  IF k = 1
                  THEN [verificationResults[k] EXCEPT
                          !.status = "error",
                          !.error = Some(<< "No GET endpoint provided for verification" >>)]
                  ELSE verificationResults[k]]
          /\ UNCHANGED <<isVerifying, verPc, verPos, verRequests>>
     ELSE Continue(verificationResults, 1)
  /\ UNCHANGED <<getEndpointUrl, normVars, discVars, previewVars, clientVars, setupVars, wizardVars, subVars, currentStep>>

\* startVerification is called while no run is under way (the component's
\* button is also disabled without getEndpointUrl, so the first branch is
\* taken only when the handler is called otherwise): without URL it marks
\* every entry and returns; with one it sets isVerifying and runs its loop
\* to the first await.
StartVerification ==
  /\ currentStep = "verification"
  /\ ~isVerifying
  /\ verPc = "idle"
  /\ IF getEndpointUrl = Undefined
     THEN /\ verificationResults' =
               [k \in 1..Len(verificationResults) |->
                  [verificationResults[k] EXCEPT
                     !.status = "error",
                     !.error = Some(<< "No GET endpoint provided for verification" >>)]]
          /\ UNCHANGED <<isVerifying, verPc, verPos, verRequests>>
     ELSE Continue(verificationResults, 1)
  /\ UNCHANGED <<getEndpointUrl, normVars, discVars, previewVars, clientVars, setupVars, wizardVars, subVars, currentStep>>

\* A loop whose catch is around it: a rejected request ends the run.
VerifyCompletesAborts(reply) ==
  /\ verPc = "request"
  /\ LET result == successfulSubmissions[verPos]
         submitted == IF result.payload = Undefined THEN Undefined ELSE result.payload[1]
     IN IF reply.kind = "rejected"
        THEN /\ verificationResults' = SetError(verificationResults, result.rowIndex, "error",
                                                << "Failed to fetch" >>)
             /\ verPc' = "idle"
             /\ isVerifying' = FALSE
             /\ UNCHANGED <<verPos, verRequests>>
        ELSE IF reply.status = 200 /\ reply.body = Undefined
        THEN Continue(SetError(verificationResults, result.rowIndex, "error",
                               << "Unexpected end of JSON input" >>), verPos + 1)
        ELSE IF reply.status = 200 /\ CompareRaises(submitted, reply.body[1])
        THEN Continue(SetError(verificationResults, result.rowIndex, "error",
                               << "Cannot convert undefined or null to object" >>), verPos + 1)
        ELSE /\ verificationResults' =
                  IF reply.status = 200
                  THEN SetCompared(verificationResults, result.rowIndex,
                                   compareData(submitted, reply.body[1]), reply.body[1])
                  ELSE IF reply.status = 404
                  THEN SetError(verificationResults, result.rowIndex, "not_found",
                                << "Record not found" >>)
                  ELSE SetError(verificationResults, result.rowIndex, "error",
                                HttpError(reply.status))
             /\ verPc' = "delay"
             /\ UNCHANGED <<isVerifying, verPos, verRequests>>
  /\ UNCHANGED <<getEndpointUrl, normVars, discVars, previewVars, clientVars, setupVars, wizardVars, subVars, currentStep>>

\* await apiClient.verifyData(...) settles: the catch block, or one of the
\* three branches on the response followed by the delay.
VerifyCompletes(reply) ==
  /\ verPc = "request"
  /\ LET result == successfulSubmissions[verPos]
         submitted == IF result.payload = Undefined THEN Undefined ELSE result.payload[1]
     IN IF reply.kind = "rejected"
        THEN Continue(SetError(verificationResults, result.rowIndex, "error",
                               << "Failed to fetch" >>), verPos + 1)
        ELSE IF reply.status = 200 /\ reply.body = Undefined
        THEN Continue(SetError(verificationResults, result.rowIndex, "error",
                               << "Unexpected end of JSON input" >>), verPos + 1)
        ELSE IF reply.status = 200 /\ CompareRaises(submitted, reply.body[1])
        THEN Continue(SetError(verificationResults, result.rowIndex, "error",
                               << "Cannot convert undefined or null to object" >>), verPos + 1)
        ELSE /\ verificationResults' =
                  IF reply.status = 200
                  THEN SetCompared(verificationResults, result.rowIndex,
                                   compareData(submitted, reply.body[1]), reply.body[1])
                  ELSE IF reply.status = 404
                  THEN SetError(verificationResults, result.rowIndex, "not_found",
                                << "Record not found" >>)
                  ELSE SetError(verificationResults, result.rowIndex, "error",
                                HttpError(reply.status))
             /\ verPc' = "delay"
             /\ UNCHANGED <<isVerifying, verPos, verRequests>>
  /\ UNCHANGED <<getEndpointUrl, normVars, discVars, previewVars, clientVars, setupVars, wizardVars, subVars, currentStep>>

\* The 300 ms delay after a response elapses and the loop goes on.
VerifyDelayElapses ==
  /\ verPc = "delay"
  /\ Continue(verificationResults, verPos + 1)
  /\ UNCHANGED <<getEndpointUrl, normVars, discVars, previewVars, clientVars, setupVars, wizardVars, subVars, currentStep>>

SomeVerifyCompletes == \E reply \in VerifyReplies : VerifyCompletes(reply)

VerificationNext ==
  \/ StartVerification
  \/ SomeVerifyCompletes
  \/ VerifyDelayElapses

VerificationSpec == VerificationInit /\ [][VerificationNext]_vars

\* ------------------------------------------------------------ properties

Settled(k) == results[k].status \in {"success", "error"}
AllSettled == \A k \in 1..rowCount : Settled(k)
Idle == loops = EmptyBag
Started == lastAttempted >= 0

\* The step hands a request to the client.
Issues ==
  \E a \in BagToSet(loops') :
    a.pc = "request" /\ CopiesIn(a, loops') > CopiesIn(a, loops)

\* C1: as long as the table has not been reset, no row has its request
\* issued twice, whatever sequence of start, pause and resume is clicked.
C1_NoRowIssuedTwice ==
  ~everReset => \A r \in 0..(rowCount - 1) : issued[r] <= 1

\* C2: from a click on Pause until the next click on Start or Reset (that is,
\* while isPaused holds) no request is issued.
C2_PauseStopsIssuing == [][isPaused => ~Issues]_vars

\* C3: at most one activation of the row loop exists, and so at most one
\* request is in flight.
C3_OneLoopOneRequest == BagCardinality(loops) <= 1

\* C4: when a run that has never been paused or reset has ended, it has
\* invoked onSubmissionComplete exactly once.
C4_UnpausedRunCompletesOnce ==
  (Started /\ ~everPaused /\ ~everReset /\ Idle) => completeCalls = 1

\* C5: every invocation of onSubmissionComplete hands over the result table
\* as it is at that moment.
C5_CompleteReportsCurrentTable ==
  [][completeCalls' > completeCalls => submissionResults' = results']_vars

\* C6: the result table has one entry per row, and entry k carries
\* rowIndex k, in every reachable state.
C6_ResultTableShape ==
  /\ Len(results) = rowCount
  /\ \A k \in 1..rowCount : results[k].rowIndex = k - 1

C6_Witness ==
  /\ everReset
  /\ everPaused
  /\ rowCount >= 2
  /\ \E k \in 1..rowCount : results[k].status = "error"
  /\ \E k \in 1..rowCount : results[k].status = "success"

\* C7: a run started at row 0 that is never paused or reset ends, provided
\* every request completes, and when it has ended every result is success or
\* error.
C7_UnpausedRunSettlesAll ==
  /\ []((Started /\ ~everPaused /\ ~everReset /\ Idle) => AllSettled)
  /\ (Started /\ ~everPaused /\ ~everReset) ~> (everPaused \/ everReset \/ (Idle /\ AllSettled))

C7_Witness ==
  /\ Started /\ ~everPaused /\ ~everReset /\ Idle
  /\ rowCount >= 2
  /\ AllSettled
  /\ \E k \in 1..rowCount : results[k].status = "error"

\* C8: a request of row i that ends in an error leaves every other row's
\* result as it was and sends its loop on to the delay, and a loop leaves
\* the delay of row i for the request of row i+1 whenever there is such a row.
C8_RowFailureIsolated ==
  [][\A a \in Activations :
       /\ ( /\ a.pc = "request"
            /\ CopiesIn(a, loops') < CopiesIn(a, loops)
            /\ results'[a.i + 1].status = "error"
            /\ results' # results )
          => /\ \A k \in 1..rowCount : k # a.i + 1 => results'[k] = results[k]
             /\ CopiesIn([a EXCEPT !.pc = "delay"], loops')
                  > CopiesIn([a EXCEPT !.pc = "delay"], loops)
       /\ ( /\ a.pc = "delay"
            /\ CopiesIn(a, loops') < CopiesIn(a, loops)
            /\ a.i + 1 < rowCount )
          => CopiesIn([a EXCEPT !.pc = "request", !.i = a.i + 1], loops')
               > CopiesIn([a EXCEPT !.pc = "request", !.i = a.i + 1], loops)
    ]_vars

C8_Witness ==
  /\ ~everPaused /\ ~everReset
  /\ \E k \in 1..(rowCount - 1) :
       /\ results[k].status = "error"
       /\ results[k + 1].status = "success"

\* C9: while a request for a row is in flight, no loop is still at the
\* request or the delay of an earlier row.
C9_RowOrder ==
  \A a, b \in Activations : b.pc = "request" => a.i >= b.i

\* C10: whenever no loop is iterating after a request has been issued, the
\* cursor is the last attempted row plus one.
C10_CursorAtNextRow ==
  (Started /\ Idle /\ Mounted /\ ~everReset) => currentRow = lastAttempted + 1

\* C11: a result that is success or error goes back to pending only by
\* resetSubmission.
C11_SettledStaysSettled ==
  [][(\E k \in 1..rowCount : Settled(k) /\ results'[k].status = "pending")
       => ResetSubmission]_vars

\* C12: resetSubmission leaves the cursor at 0, a table of N pending entries
\* without payload, response or error, and the flags isRunning and isPaused
\* false; the rows, the endpoint and the mappings stay as they are.
C12_ResetEffect ==
  [][ResetSubmission =>
       /\ currentRow' = 0
       /\ Len(results') = rowCount
       /\ \A k \in 1..rowCount :
            /\ results'[k].status = "pending"
            /\ results'[k].payload = Undefined
            /\ results'[k].response = Undefined
            /\ results'[k].error = Undefined
       /\ ~isRunning' /\ ~isPaused'
       /\ UNCHANGED <<rowCount, selectedEndpoint, fieldMappings>>
    ]_vars

C12_Witness ==
  /\ everReset /\ everPaused
  /\ lastAttempted = 1
  /\ loops # EmptyBag
  /\ currentRow = 0
  /\ results = resetResults(rowCount)
  /\ ~isRunning /\ ~isPaused

\* C13: every result with status success or error has its payload.
C13_PayloadPopulated ==
  \A k \in 1..rowCount : Settled(k) => results[k].payload # Undefined

\* C14: a request that ends with a success status leaves the row success
\* with the parsed body and no error, one that ends with a failure status
\* leaves it error with the HTTP message, and one that ends in a network
\* exception leaves it error with the exception's message.
C14_OutcomeRecorded ==
  [][\A a \in Activations, o \in Outcomes :
       (RequestCompletes(a, o) /\ Mounted) =>
         LET r == results'[a.i + 1]
         IN /\ o \in {"ok", "okbad"} =>
                 /\ r.status = "success"
                 /\ r.response = Some(ResponseBody(a.i))
                 /\ r.error = Undefined
            /\ o = "http" =>
                 /\ r.status = "error"
                 /\ r.error = Some("HTTP 500: Internal Server Error")
            /\ o = "exc" =>
                 /\ r.status = "error"
                 /\ r.error = Some("Failed to fetch")
    ]_vars

\* The names of the fields the endpoint requires: its required parameters and
\* the required properties of its request body.
RequiredNames(endpoint) ==
  {endpoint.parameters[k].name :
     k \in {j \in 1..Len(endpoint.parameters) : endpoint.parameters[j].required}}
  \cup
  (IF endpoint.requestBody = Undefined THEN {}
   ELSE LET props == endpoint.requestBody[1].properties
        IN {props[k].name : k \in {j \in 1..Len(props) : props[j].required}})

\* C15: the payload built for a row has exactly the apiField names of the
\* mapping set as keys, each with the row's value in the mapped column.
C15_PayloadMatchesMappings ==
  sentPayload # Undefined =>
    LET p == sentPayload[1].payload
        row == Row(sentPayload[1].rowIndex)
    IN /\ DOMAIN p = {fieldMappings[k].apiField : k \in 1..Len(fieldMappings)}
       /\ \A k \in 1..Len(fieldMappings) :
            p[fieldMappings[k].apiField] = row[fieldMappings[k].spreadsheetColumn]

C15_Witness ==
  /\ sentPayload # Undefined
  /\ sentPayload[1].rowIndex = 1
  /\ Len(fieldMappings) = 2
  /\ Cardinality(FieldNames(selectedEndpoint)) = 3

\* C16: the submission step is reached only with every required field
\* mapped, and the Continue button does nothing while one is unmapped.
C16_RequiredFieldsMapped ==
  /\ currentStep = "submission" =>
       \A f \in RequiredNames(selectedEndpoint) : HasMapping(fieldMappings, f)
  /\ (currentStep = "mapping"
        /\ \E f \in RequiredNames(selectedEndpoint) : ~HasMapping(dmMappings, f))
       => ~ENABLED HandleComplete

C16_Witness ==
  /\ currentStep = "submission"
  /\ RequiredNames(selectedEndpoint) # {}
  /\ \E f \in FieldNames(selectedEndpoint) : ~HasMapping(fieldMappings, f)
  /\ selectedEndpoint.requestBody # Undefined

\* C17: the mapping set has at most one entry per apiField and no entry with
\* an empty column, and choosing the empty column for a field leaves the set
\* without an entry for it.
C17_OneEntryPerField ==
  /\ [](/\ \A j, k \in 1..Len(dmMappings) :
             dmMappings[j].apiField = dmMappings[k].apiField => j = k
        /\ \A k \in 1..Len(dmMappings) : dmMappings[k].spreadsheetColumn # "")
  /\ [][\A f \in FieldNames(selectedEndpoint) :
          HandleMappingChange(f, "") => ~HasMapping(dmMappings', f)]_vars

C17_Witness ==
  /\ dmRemoved
  /\ Len(dmMappings) >= 2
  /\ currentStep = "mapping"

\* The entries of the probe log with the given method, in order.
ProbesOf(method) == SelectSeq(probes, LAMBDA p : p.method = method)

\* The documentation probes come first and follow swaggerUrls.
DocProbesInOrder ==
  /\ \A k \in 1..Len(ProbesOf("GET")) :
       /\ k <= Len(swaggerUrls)
       /\ probes[k].method = "GET"
       /\ probes[k].url = swaggerUrls[k]

\* C18 as stated: the documentation URLs are probed in the fixed order, and
\* when the k-th is the first to respond with a successful status exactly k
\* documentation probes are issued and no OPTIONS probe.
C18_StopsAtFirstSuccess ==
  /\ DocProbesInOrder
  /\ \A k \in 1..Len(ProbesOf("GET")) :
       (probes[k].ok /\ \A j \in 1..(k - 1) : ~probes[j].ok)
         => (Len(ProbesOf("GET")) = k /\ ProbesOf("OPTIONS") = << >>)

\* C18 amended: the documentation URLs are probed in the fixed order, and
\* when the k-th is the first to respond with a successful status and a body
\* that parses and normalises, exactly k documentation probes are issued, no
\* OPTIONS probe is issued and the call has returned; the OPTIONS probes
\* start only after all five documentation URLs were probed without one.
C18_StopsAtFirstDocument ==
  /\ DocProbesInOrder
  /\ \A k \in 1..Len(ProbesOf("GET")) :
       probes[k].usable =>
         /\ Len(ProbesOf("GET")) = k
         /\ ProbesOf("OPTIONS") = << >>
         /\ discPc = "done"
         /\ discResult # Undefined
  /\ ProbesOf("OPTIONS") # << >> => Len(ProbesOf("GET")) = Len(swaggerUrls)

C18_Witness ==
  /\ discPc = "done"
  /\ Len(probes) = 3
  /\ ~probes[1].ok
  /\ probes[2].ok /\ ~probes[2].usable
  /\ probes[3].usable
  /\ discResult # Undefined /\ discResult[1] # << >>

\* The tokens of an Allow header that name the method m, whatever their case
\* and the blanks around them.
TokensNaming(allow, m) ==
  LET tokens == split(IF allow = Undefined THEN << >> ELSE allow[1])
  IN {k \in 1..Len(tokens) : toLowerCase(trimStart(trimEnd(tokens[k]))) = toLowerCase(m)}

\* The endpoints of a result with the given path and method.
EndpointsAt(endpoints, path, m) ==
  {k \in 1..Len(endpoints) : endpoints[k].path = path /\ endpoints[k].method = m}

EveryDocProbeFailed ==
  /\ Len(ProbesOf("GET")) = Len(swaggerUrls)
  /\ \A k \in 1..Len(swaggerUrls) : ~probes[k].ok

\* The tokens of an Allow header, split on commas, that are the method m in
\* any case.
TokensMatching(allow, m) ==
  LET tokens == split(IF allow = Undefined THEN << >> ELSE allow[1])
  IN {k \in 1..Len(tokens) : toLowerCase(tokens[k]) = toLowerCase(m)}

\* With every documentation probe failed, each of the 5 conventional paths
\* got an OPTIONS probe, and the result has one endpoint per path that
\* responded successfully and token of its Allow header that names a method
\* (as split when `trimmed` is false, without the blanks around it else),
\* each with that method, the path and no parameters.
HeuristicEndpointsBy(trimmed) ==
  (discPc = "done" /\ EveryDocProbeFailed) =>
    LET opts == ProbesOf("OPTIONS")
        found == discResult[1]
    IN /\ Len(opts) = Len(commonPaths)
       /\ \A k \in 1..Len(commonPaths) : opts[k].url = baseUrl \o commonPaths[k]
       /\ \A k \in 1..Len(commonPaths) : \A m \in {GET, POST, PUT, DELETE} :
            Cardinality(EndpointsAt(found, commonPaths[k], m)) =
              IF ~opts[k].ok THEN 0
              ELSE IF trimmed THEN Cardinality(TokensNaming(opts[k].allow, m))
              ELSE Cardinality(TokensMatching(opts[k].allow, m))
       /\ \A e \in 1..Len(found) :
            /\ found[e].method \in {GET, POST, PUT, DELETE}
            /\ \E k \in 1..Len(commonPaths) : found[e].path = commonPaths[k]
            /\ found[e].fullUrl = baseUrl \o found[e].path
            /\ found[e].parameters = << >>
            /\ found[e].requestBody = Undefined

\* C19 as stated: when every documentation probe fails, each of the 5
\* conventional paths gets an OPTIONS probe whatever the earlier ones
\* answered, and the result has exactly one endpoint per path that responded
\* successfully and token of its Allow header that is GET, POST, PUT or
\* DELETE in any case, each without parameters.
C19_TokensAsSplit == HeuristicEndpointsBy(FALSE)

\* C19 amended: the same, a token counting when it is GET, POST, PUT or
\* DELETE in any case once the blanks around it are removed.
C19_HeuristicEndpoints == HeuristicEndpointsBy(TRUE)

C19_Witness ==
  /\ discPc = "done"
  /\ EveryDocProbeFailed
  /\ LET opts == ProbesOf("OPTIONS")
     IN /\ Len(opts) = 5
        /\ opts[1].ok /\ opts[1].allow = Some(AllowMixed)
        /\ ~opts[2].ok
        /\ opts[3].ok /\ opts[3].allow = Some(AllowHead)
        /\ opts[5].ok /\ opts[5].allow = Some(AllowMixed)
  /\ Len(discResult[1]) = 6

\* C20 as stated: the result is empty only when no probe succeeded.
C20_EmptyOnlyWithoutSuccess ==
  (discPc = "done" /\ \E k \in 1..Len(probes) : probes[k].ok) => discResult[1] # << >>

\* The document has an operation under a get, post, put or delete key.
HasSupportedOperation(spec) ==
  /\ spec.paths # Undefined
  /\ \E k \in 1..Len(spec.paths[1]) :
       \E j \in 1..Len(spec.paths[1][k].pathObj.entries) :
         toUpperCase(spec.paths[1][k].pathObj.entries[j].method) \in {GET, POST, PUT, DELETE}

\* C20 amended: the result is empty exactly when the document it was
\* normalised from has no get, post, put or delete operation or, no document
\* having been returned, no successful OPTIONS response names one of the
\* four methods in its Allow header; without any successful probe it is
\* empty.
C20_EmptyWithoutSupportedMethod ==
  discPc = "done" =>
    /\ discResult[1] = << >> <=>
         IF discDoc # Undefined
         THEN ~HasSupportedOperation(discDoc[1])
         ELSE \A k \in 1..Len(probes) :
                (probes[k].method = "OPTIONS" /\ probes[k].ok) =>
                  \A m \in {GET, POST, PUT, DELETE} : TokensNaming(probes[k].allow, m) = {}
    /\ (\A k \in 1..Len(probes) : ~probes[k].ok) => discResult[1] = << >>

C20_Witness ==
  /\ discPc = "done"
  /\ discResult = Some(<< >>)
  /\ discDoc = Undefined
  /\ \E k \in 1..Len(probes) : probes[k].method = "GET" /\ probes[k].ok
  /\ \E k \in 1..Len(probes) :
       probes[k].method = "OPTIONS" /\ probes[k].ok /\ probes[k].allow = Some(AllowHead)

\* C21: whatever each probe ends in, the call neither raises nor stops
\* short: an unfinished call always has its next candidate to probe, one
\* probe per candidate consumed, and a finished call has returned a sequence
\* of endpoints after at most the 5 + 5 probes.
C21_DiscoveryAlwaysReturns ==
  /\ discPc \in {"docs", "manual", "done"}
  /\ Len(probes) <= Len(swaggerUrls) + Len(commonPaths)
  /\ discPc = "docs" =>
       /\ discIdx = Len(probes) /\ discIdx < Len(swaggerUrls)
       /\ \A k \in 1..Len(probes) : ~probes[k].usable
       /\ discResult = Undefined
       /\ ENABLED SomeDocProbe
  /\ discPc = "manual" =>
       /\ Len(ProbesOf("GET")) = Len(swaggerUrls)
       /\ discIdx = Len(ProbesOf("OPTIONS")) /\ discIdx < Len(commonPaths)
       /\ discResult = Undefined
       /\ ENABLED SomeOptionsProbe
  /\ discPc = "done" =>
       /\ discResult # Undefined
       /\ \A e \in 1..Len(discResult[1]) :
            discResult[1][e].method \in {GET, POST, PUT, DELETE}

C21_Witness ==
  /\ discPc = "done"
  /\ Len(probes) = Len(swaggerUrls) + Len(commonPaths)
  /\ \E k \in 1..Len(probes) : probes[k].method = "GET" /\ probes[k].ok
  /\ \E k \in 1..Len(probes) : probes[k].method = "GET" /\ ~probes[k].ok
  /\ \E k \in 1..Len(probes) : probes[k].method = "OPTIONS" /\ ~probes[k].ok
  /\ ~probes[Len(probes)].ok
  /\ discResult[1] # << >>

\* The normalizer has returned for an input of the given kind.
Normalized(kind) ==
  /\ normInput # Undefined
  /\ normInput[1].kind = kind
  /\ normOutput # Undefined

\* C22: the normalizer returns, for each path and each of GET, POST, PUT and
\* DELETE, as many endpoints as the path has keys spelling that method in
\* any case, and nothing else; each has the method in upper case, path =
\* basePath + path and fullUrl = baseUrl + basePath + path.
C22_OneEndpointPerOperation ==
  Normalized("document") =>
    LET spec == normInput[1].value
        out == normOutput[1]
        base == IF spec.basePath = Undefined THEN << >> ELSE spec.basePath[1]
        table == IF spec.paths = Undefined THEN << >> ELSE spec.paths[1]
    IN /\ \A k \in 1..Len(table) : \A m \in {GET, POST, PUT, DELETE} :
            Cardinality({e \in 1..Len(out) :
                           out[e].path = base \o table[k].path /\ out[e].method = m})
              = Cardinality({j \in 1..Len(table[k].pathObj.entries) :
                               toUpperCase(table[k].pathObj.entries[j].method) = m})
       /\ \A e \in 1..Len(out) :
            /\ out[e].method \in {GET, POST, PUT, DELETE}
            /\ \E k \in 1..Len(table) :
                 /\ out[e].path = base \o table[k].path
                 /\ out[e].fullUrl = baseUrl \o base \o table[k].path

C22_Witness ==
  /\ Normalized("document")
  /\ normInput[1].value.basePath # Undefined
  /\ Len(normOutput[1]) = 2
  /\ normOutput[1][1].method = GET /\ normOutput[1][2].method = GET
  /\ normOutput[1][1].path = normOutput[1][2].path
  /\ Len(normInput[1].value.paths[1]) = 2
  /\ \E k \in 1..2 :
       normInput[1].value.paths[1][k].pathObj.entries
         = << [method |-> << "p", "a", "t", "c", "h" >>, methodObj |-> PlainOperation] >>

\* C23: for each of type, format, enum, maxLength and minLength the
\* normalized parameter has the nested schema's value when the schema carries
\* one, the flat value otherwise, and type 'string' when there is neither.
C23_NestedValuePreferred ==
  Normalized("parameter") =>
    LET param == normInput[1].value
        out == normOutput[1][1]
        nested(c) == IF param.schema = Undefined THEN Undefined ELSE param.schema[1][c]
        expected(c) == IF nested(c) # Undefined THEN nested(c) ELSE param.flat[c]
    IN /\ out.type = IF expected("type") # Undefined THEN expected("type")[1] ELSE "string"
       /\ \A c \in Constraints \ {"type"} : out[c] = expected(c)

\* C24: the normalized request body has the first content type of
\* requestBody.content and one property per property of its schema, marked
\* required exactly when the schema's required array has its name; there is
\* no request body when that content type has no schema.
C24_RequiredAndContentType ==
  Normalized("requestBody") =>
    LET body == normInput[1].value
        out == normOutput[1]
    IN IF body.content # Undefined /\ body.content[1][1].media.schema # Undefined
       THEN LET schema == body.content[1][1].media.schema[1]
                given == IF schema.properties = Undefined THEN << >> ELSE schema.properties[1]
                names == IF schema.required = Undefined THEN {}
                         ELSE {schema.required[1][k] : k \in 1..Len(schema.required[1])}
            IN /\ out # Undefined
               /\ out[1].contentType = body.content[1][1].contentType
               /\ Len(out[1].schema.properties) = Len(given)
               /\ \A k \in 1..Len(given) :
                    /\ out[1].schema.properties[k].name = given[k].name
                    /\ out[1].schema.properties[k].required <=> given[k].name \in names
       ELSE out = Undefined

C24_Witness ==
  /\ Normalized("requestBody")
  /\ normOutput[1] # Undefined
  /\ normOutput[1][1].contentType = "application/xml"
  /\ Len(normInput[1].value.content[1]) = 2
  /\ Len(normOutput[1][1].schema.properties) = 2
  /\ ~normOutput[1][1].schema.properties[1].required
  /\ normOutput[1][1].schema.properties[2].required

C26_VerifiedIffPayloadContained ==
  [][\A reply \in VerifyReplies :
       (/\ VerifyCompletes(reply)
        /\ reply.status = 200 /\ reply.body # Undefined
        /\ successfulSubmissions[verPos].payload # Undefined)
       => LET payload == successfulSubmissions[verPos].payload[1]
              record == reply.body[1]
              contained == \A key \in DOMAIN payload :
                             key \in DOMAIN record /\ record[key] = payload[key]
              entry == verificationResults'[verPos]
          IN /\ entry.status = IF contained THEN "verified" ELSE "mismatch"
             /\ entry.retrieved = Some(record)
             /\ entry.error = Undefined
    ]_vars

C26_Witness ==
  /\ Len(verificationResults) = 2
  /\ verificationResults[1].status = "verified"
  /\ verificationResults[1].submitted = Some(PayloadWithId)
  /\ verificationResults[1].retrieved = Some([mail |-> "s:a", id |-> "n:9", extra |-> "n:99"])
  /\ verificationResults[2].status = "mismatch"
  /\ verificationResults[2].retrieved = Some([id |-> "n:9"])

\* C27: a 404 response leaves the row not_found, and a 500 response leaves
\* it error with "HTTP 500: Internal Server Error".
C27_NotFoundIsNotError ==
  [][\A reply \in VerifyReplies :
       (VerifyCompletes(reply) /\ reply.kind = "response" /\ reply.status # 200)
       => LET entry == verificationResults'[verPos]
          IN IF reply.status = 404
             THEN entry.status = "not_found"
             ELSE /\ entry.status = "error"
                  /\ entry.error = Some(<< "HTTP ", "500", ": ", "Internal Server Error" >>)
    ]_vars

C27_Witness ==
  /\ Len(verificationResults) = 2
  /\ verificationResults[1].status = "not_found"
  /\ verificationResults[2].status = "error"
  /\ verificationResults[2].error = Some(<< "HTTP ", "500", ": ", "Internal Server Error" >>)

\* C28: startVerification without a GET endpoint URL leaves every entry
\* error with "No GET endpoint provided for verification", and no
\* verification request is ever issued.
C28_NoUrlMarksAll ==
  /\ [](getEndpointUrl = Undefined => verRequests = {} /\ ~isVerifying)
  /\ [][(StartVerification /\ getEndpointUrl = Undefined) =>
          \A k \in 1..Len(verificationResults') :
            /\ verificationResults'[k].status = "error"
            /\ verificationResults'[k].error =
                 Some(<< "No GET endpoint provided for verification" >>)
       ]_vars

C28_Witness ==
  /\ getEndpointUrl = Undefined
  /\ Len(verificationResults) = 2
  /\ \A k \in 1..2 :
       verificationResults[k].error = Some(<< "No GET endpoint provided for verification" >>)
  /\ verRequests = {}

\* C29: a row is marked "No identifier found in response" only when the
\* response has neither id nor ID and the payload has no id, no request is
\* issued for such a row, and every request is for the response's id if
\* present, else its ID, else the payload's id.
C29_IdentifierByPresence ==
  \A k \in 1..Len(verificationResults) :
    LET result == successfulSubmissions[k]
        response == IF result.response = Undefined THEN Undefined ELSE result.response[1]
        payload == IF result.payload = Undefined THEN Undefined ELSE result.payload[1]
        present == IF Get(response, "id") # Undefined THEN Get(response, "id")
                   ELSE IF Get(response, "ID") # Undefined THEN Get(response, "ID")
                   ELSE Get(payload, "id")
    IN /\ verificationResults[k].error = Some(<< "No identifier found in response" >>)
            => present = Undefined
       /\ \A q \in verRequests :
            q.rowIndex = result.rowIndex =>
              /\ present # Undefined
              /\ q.url = verifyUrl(getEndpointUrl[1], present[1])

\* C30: an entry changes only by the outcome of its own row (the reply to
\* its request, or its missing identifier), a run that has left its loop has
\* gone through every successful submission, requesting each one that has an
\* identifier, and isVerifying is false once the run is over.
C30_FailureIsolated ==
  /\ [](verPc = "idle" =>
          /\ ~isVerifying
          /\ verPos > 0 =>
               /\ verPos = Len(successfulSubmissions) + 1
               /\ \A k \in 1..Len(successfulSubmissions) :
                    /\ verificationResults[k].error # Some(<< "Verification not started" >>)
                    /\ ~NoIdentifier(successfulSubmissions[k]) =>
                         \E q \in verRequests : q.rowIndex = successfulSubmissions[k].rowIndex)
  /\ [][getEndpointUrl # Undefined =>
          \A k \in 1..Len(verificationResults) :
            verificationResults'[k] # verificationResults[k] =>
              \/ verPc = "request" /\ k = verPos
              \/ /\ verPos < k /\ k < verPos'
                 /\ NoIdentifier(successfulSubmissions[k])
                 /\ verificationResults'[k].error = Some(<< "No identifier found in response" >>)
       ]_vars

C30_Witness ==
  /\ Len(verificationResults) = 2
  /\ verificationResults[1].error = Some(<< "Failed to fetch" >>)
  /\ verificationResults[2].status = "verified"
  /\ verPc = "idle" /\ ~isVerifying
  /\ Cardinality(verRequests) = 2

\* C31: between two consecutive verification requests the delay elapses:
\* a request that follows an earlier one of the run is issued only by the
\* step in which the delay after that one ends, whatever its outcome was.
C31_DelayBetweenRequests ==
  [][(verRequests' # verRequests /\ verRequests # {}) => verPc = "delay"]_vars

\* C36: a documentation probe answered with a successful status and a body
\* that does not parse as JSON, or a document whose normalisation raises,
\* neither ends discoverEndpoints nor raises: the call goes on with the next
\* documentation URL, and after the last one with the OPTIONS probing.
C36_UnparsedDocumentIsFailedProbe ==
  /\ [](discPc # "raised")
  /\ [][(/\ discPc = "docs"
         /\ Len(probes') = Len(probes) + 1
         /\ probes'[Len(probes')].ok
         /\ ~probes'[Len(probes')].usable)
        => /\ discResult' = Undefined
           /\ IF discIdx + 1 < Len(swaggerUrls)
              THEN discPc' = "docs" /\ discIdx' = discIdx + 1
              ELSE discPc' = "manual" /\ discIdx' = 0
       ]_vars

C36_Witness ==
  /\ Len(probes) > Len(swaggerUrls)
  /\ probes[1].ok /\ ~probes[1].usable
  /\ probes[Len(swaggerUrls)].ok /\ ~probes[Len(swaggerUrls)].usable
  /\ probes[Len(swaggerUrls) + 1].method = "OPTIONS"

\* C35: once Reset has been clicked and until Start is clicked again (the
\* component shows the reset table, the cursor at row 0, neither running nor
\* paused), no step other than a click changes a result from pending or
\* issues a request for a row.
C35_ResetStaysPending ==
  [][(/\ everReset
      /\ ~isRunning /\ ~isPaused /\ currentRow = 0
      /\ results = resetResults(rowCount)
      /\ nClicks' = nClicks)
     => /\ \A k \in 1..Len(results') : results'[k].status = "pending"
        /\ issued' = issued
        /\ lastAttempted' = lastAttempted
    ]_vars

\* C38: over every number of verification runs, an entry carries a
\* retrieved body only while its status is verified or mismatch, and an
\* error message exactly while its status is error or not_found.
C38_FieldsFollowStatus ==
  \A k \in 1..Len(verificationResults) :
    LET r == verificationResults[k]
    IN /\ r.retrieved # Undefined => r.status \in {"verified", "mismatch"}
       /\ r.error # Undefined <=> r.status \in {"error", "not_found"}

\* C37: whenever the mapping step shows the preview, the payload shown for a
\* row is the payload the submission step builds for that row from the same
\* mapping set, and computing it does not raise.
C37_PreviewEqualsPayload ==
  dmPreview # Undefined =>
    /\ ~dmPreview[1].result.raised
    /\ dmPreview[1].result.payload =
         Some(buildPayload(dmPreview[1].mappings, Row(dmPreview[1].rowIndex)))

\* C32: submitData hands fetch one request, with the endpoint's method and
\* fullUrl, whose body is the JSON text of the payload for POST and PUT and
\* absent for the other methods; the call returns the response for every
\* status and raises exactly when fetch rejects.
C32_SubmitDataRequest ==
  clientOutcome # Undefined =>
    LET call == clientCall[1]
        outcome == clientOutcome[1]
        request == outcome.requests[1]
    IN /\ Len(outcome.requests) = 1
       /\ request.method = call.endpoint.method
       /\ request.url = call.endpoint.fullUrl
       /\ request.body = IF call.endpoint.method \in {"POST", "PUT"}
                         THEN Some(stringify(call.data))
                         ELSE Undefined
       /\ outcome.raised <=> call.reply.rejected
       /\ ~call.reply.rejected =>
            /\ outcome.response # Undefined
            /\ outcome.response[1].status = call.reply.status

C32_Witness ==
  /\ clientOutcome # Undefined
  /\ clientCall[1].endpoint.method = "PUT"
  /\ clientCall[1].reply.status = 500
  /\ ~clientOutcome[1].raised
  /\ clientOutcome[1].requests[1].body = Some(<< "{", "\"", "title", "\"", ":", "10", "}" >>)

\* C33: App holds a client only when the latest testConnection succeeded
\* and was made with the credentials the form shows, which are the ones the
\* client carries; a testConnection that fails leaves the wizard on the
\* credentials step without a client, the form showing "Connection failed:"
\* with the status code and text, or the message of the network failure.
C33_ClientOnlyAfterSuccess ==
  /\ [](apiClient # Undefined =>
          /\ lastTest = Some([credentials |-> credentials, ok |-> TRUE])
          /\ apiClient[1].credentials = credentials
          /\ appCredentials = Some(credentials))
  /\ [](apiClient = Undefined => currentStep = "credentials")
  /\ [][\A reply \in TestReplies :
          (TestConnectionCompletes(reply) /\ (reply.rejected \/ reply.status # "200"))
          => /\ currentStep' = "credentials"
             /\ apiClient' = Undefined
             /\ validationStatus' = "error"
             /\ credError' = IF reply.rejected
                             THEN << "Failed to fetch" >>
                             ELSE << "Connection failed: ", reply.status, " ",
                                     reply.statusText >>
       ]_vars

C33_Witness ==
  /\ currentStep = "endpoints"
  /\ apiClient # Undefined
  /\ apiClient[1].credentials = [baseUrl |-> baseUrl, username |-> "u", password |-> "q"]
  /\ validationStatus = "success"

\* C34: an invalid base URL, or a connection that fails altogether during
\* the validation of the credentials or during discovery (every request
\* rejected), takes the wizard to the error step with the message of the
\* failure.
C34_SetupFailureShowsErrorStep ==
  [][/\ (credError' # credError
           /\ credError' \in {<< "Please enter a valid URL" >>, << "Failed to fetch" >>})
        => (currentStep' = "error" /\ errorMessage' = Some(credError'))
     /\ (isDiscovering /\ ~isDiscovering'
           /\ \A k \in 1..Len(probes) : ~probes[k].ok)
        => (currentStep' = "error" /\ errorMessage' # Undefined)
    ]_vars

====
